---- MODULE Spec2Model ----
(***************************************************************************)
(* A model of the PDF outline classifier (src/utils/analysis_new.py) and   *)
(* of the extractor that drives it (src/extract_outline.py).               *)
(*                                                                         *)
(* Texts and font names are sequences of one-character strings, so that    *)
(* the regular expressions and string methods of the source are computed   *)
(* character by character.  A character outside ASCII is written as the    *)
(* token "U+XXXX" of its code point.  Font sizes, coordinates and the page *)
(* width are integers; every float comparison of the source is restated    *)
(* over integers by multiplying both sides with the denominator of the     *)
(* source's decimal factor.                                                *)
(***************************************************************************)
EXTENDS Integers, Sequences, FiniteSets, TLC

(***************************************************************************)
(* Character classes                                                       *)
(***************************************************************************)
Digits == {"0", "1", "2", "3", "4", "5", "6", "7", "8", "9"}

UpperSeq == <<"A", "B", "C", "D", "E", "F", "G", "H", "I", "J", "K", "L", "M",
              "N", "O", "P", "Q", "R", "S", "T", "U", "V", "W", "X", "Y", "Z">>

LowerSeq == <<"a", "b", "c", "d", "e", "f", "g", "h", "i", "j", "k", "l", "m",
              "n", "o", "p", "q", "r", "s", "t", "u", "v", "w", "x", "y", "z">>

UpperLetters == {UpperSeq[i] : i \in 1..26}

LowerLetters == {LowerSeq[i] : i \in 1..26}

AsciiLetters == UpperLetters \cup LowerLetters

\* \s of Python's re
Whitespace == {" ", "\t", "\n"}

\* [.,;:!?]
Punctuation == {".", ",", ";", ":", "!", "?"}

\* \u4e00-\u9fff : ideographs the source itself names
CJKIdeographs == {"U+7B2C", "U+7AE0", "U+7BC0", "U+6761", "U+9805",
                  "U+76EE", "U+90E8", "U+7DE8", "U+5DFB", "U+518A",
                  "U+59D3", "U+540D", "U+90AE", "U+7BB1", "U+7535", "U+8BDD",
                  "U+5730", "U+5740", "U+65E5", "U+671F", "U+65F6", "U+95F4"}

\* \u3040-\u309f and \u30a0-\u30ff
Kana == {"U+3042", "U+30A2"}

\* \uac00-\ud7af
Hangul == {"U+AC00"}

\* \u0400-\u04ff
Cyrillic == {"U+0410", "U+0430"}

\* \u0600-\u06ff (the Arabic-Indic digits U+0660.. lie in this range)
ArabicDigits == {"U+0660", "U+0661", "U+0662"}

PersianDigits == {"U+06F0", "U+06F1", "U+06F2"}

ArabicBlock == {"U+0627"} \cup ArabicDigits \cup PersianDigits

\* Latin letters outside ASCII that the form patterns use
AccentedLower == {"U+00E9", "U+00F3"}

\* the fullwidth colon and the dashes of the source's character classes
FullwidthColon == "U+FF1A"

WideDashes == {"U+FF0D", "U+2014"}

\* circled numbers U+2460..
CircledNumbers == {"U+2460", "U+2461", "U+2462"}

\* unicodedata.category(c).startswith('L')
IsLetter(c) ==
    c \in AsciiLetters \cup CJKIdeographs \cup Kana \cup Hangul \cup Cyrillic
          \cup AccentedLower \cup {"U+0627"}

\* str.isupper() of one character
IsUpperChar(c) == c \in UpperLetters \cup {"U+0410"}

\* str.islower() of one character
IsLowerChar(c) == c \in LowerLetters \cup {"U+0430"} \cup AccentedLower

\* str.isdigit() / \d with re.UNICODE
IsDigit(c) == c \in Digits \cup ArabicDigits \cup PersianDigits

\* \w of Python's re
IsWordChar(c) == IsLetter(c) \/ IsDigit(c) \/ c = "_"

LowerOf == [c \in UpperLetters |-> LowerSeq[CHOOSE i \in 1..26 : UpperSeq[i] = c]]

\* str.lower() of one character
ToLowerChar(c) ==
    IF c \in UpperLetters THEN LowerOf[c]
    ELSE IF c = "U+0410" THEN "U+0430" ELSE c

UpperOf == [c \in LowerLetters |-> UpperSeq[CHOOSE i \in 1..26 : LowerSeq[i] = c]]

\* str.upper() of one character
ToUpperChar(c) ==
    IF c \in LowerLetters THEN UpperOf[c]
    ELSE IF c = "U+0430" THEN "U+0410" ELSE c

(***************************************************************************)
(* String methods                                                          *)
(***************************************************************************)
\* font sizes, coordinates and the page width are floats in the program;
\* here they are integers that count half points, so that sizes such as
\* 12.5 have a value: Pt(x) is x points
Pt(x) == 2 * x

Min(a, b) == IF a < b THEN a ELSE b

Max(a, b) == IF a > b THEN a ELSE b

Abs(a) == IF a < 0 THEN 0 - a ELSE a

\* s[:n]
Take(s, n) == SubSeq(s, 1, Min(n, Len(s)))

\* s[i-1:] with i counted from 1
Drop(s, i) == SubSeq(s, i, Len(s))

ToLower(s) == [i \in 1..Len(s) |-> ToLowerChar(s[i])]

ToUpper(s) == [i \in 1..Len(s) |-> ToUpperChar(s[i])]

\* first index >= i that holds no whitespace (Len(s)+1 when there is none)
RECURSIVE SkipWs(_, _)
SkipWs(s, i) ==
    IF i <= Len(s) /\ s[i] \in Whitespace THEN SkipWs(s, i + 1) ELSE i

\* last index <= i that holds no whitespace (0 when there is none)
RECURSIVE SkipWsBack(_, _)
SkipWsBack(s, i) ==
    IF i >= 1 /\ s[i] \in Whitespace THEN SkipWsBack(s, i - 1) ELSE i

\* str.strip()
Strip(s) == SubSeq(s, SkipWs(s, 1), SkipWsBack(s, Len(s)))

\* s.startswith(p) at offset i (counted from 1)
MatchAt(s, i, p) ==
    /\ i + Len(p) - 1 <= Len(s)
    /\ \A k \in 1..Len(p) : s[i + k - 1] = p[k]

StartsWith(s, p) == MatchAt(s, 1, p)

EndsWith(s, p) == Len(p) <= Len(s) /\ MatchAt(s, Len(s) - Len(p) + 1, p)

\* p in s
Contains(s, p) == \E i \in 1..(Len(s) - Len(p) + 1) : MatchAt(s, i, p)

\* first index >= i that holds whitespace (Len(s)+1 when there is none)
RECURSIVE SkipNonWs(_, _)
SkipNonWs(s, i) ==
    IF i <= Len(s) /\ s[i] \notin Whitespace THEN SkipNonWs(s, i + 1) ELSE i

\* str.split(): the words of s, from index i on
RECURSIVE SplitFrom(_, _)
SplitFrom(s, i) ==
    LET a == SkipWs(s, i)
        b == SkipNonWs(s, a)
    IN  IF a > Len(s) THEN << >>
        ELSE <<SubSeq(s, a, b - 1)>> \o SplitFrom(s, b)

Split(s) == SplitFrom(s, 1)

\* sep.join(parts)
RECURSIVE Join(_, _)
Join(parts, sep) ==
    IF Len(parts) = 0 THEN << >>
    ELSE IF Len(parts) = 1 THEN parts[1]
    ELSE parts[1] \o sep \o Join(Tail(parts), sep)

SP == <<" ">>

\* re.sub(r'\s+', ' ', s[i-1:]): every run of whitespace leaves one space
CollapseWs(s, i) ==
    LET Kept(k) == s[k] \notin Whitespace \/ k = i \/ s[k - 1] \notin Whitespace
        kept == SelectSeq([k \in 1..(Len(s) - i + 1) |-> k + i - 1], Kept)
    IN  [k \in 1..Len(kept) |-> IF s[kept[k]] \in Whitespace THEN " " ELSE s[kept[k]]]

\* re.sub(r'\s+([.,;:!?])', r'\1', s)
RECURSIVE DropWsBeforePunct(_, _)
DropWsBeforePunct(s, i) ==
    IF i > Len(s) THEN << >>
    ELSE LET k == SkipWs(s, i)
         IN  IF s[i] \in Whitespace /\ k <= Len(s) /\ s[k] \in Punctuation
             THEN <<s[k]>> \o DropWsBeforePunct(s, k + 1)
             ELSE <<s[i]>> \o DropWsBeforePunct(s, i + 1)

\* re.sub(r'([.,;:!?])\s*([A-Za-z\u4e00-\u9fff])', r'\1 \2', s)
RECURSIVE SpaceAfterPunct(_, _)
SpaceAfterPunct(s, i) ==
    IF i > Len(s) THEN << >>
    ELSE LET k == SkipWs(s, i + 1)
         IN  IF /\ s[i] \in Punctuation
                /\ k <= Len(s)
                /\ s[k] \in AsciiLetters \cup CJKIdeographs
             THEN <<s[i], " ", s[k]>> \o SpaceAfterPunct(s, k + 1)
             ELSE <<s[i]>> \o SpaceAfterPunct(s, i + 1)

(***************************************************************************)
(* PatternLearner                                                          *)
(***************************************************************************)
\* first index >= i that holds no digit
RECURSIVE SkipDigits(_, _)
SkipDigits(s, i) ==
    IF i <= Len(s) /\ IsDigit(s[i]) THEN SkipDigits(s, i + 1) ELSE i

\* first index >= i that holds no character of class cls
RECURSIVE SkipClass(_, _, _)
SkipClass(s, i, cls) ==
    IF i <= Len(s) /\ s[i] \in cls THEN SkipClass(s, i + 1, cls) ELSE i

CharAt(s, i) == IF i >= 1 /\ i <= Len(s) THEN s[i] ELSE "EOS"

RomanLetters == {"I", "V", "X", "L", "C", "D", "M", "i", "v", "x", "l", "c", "d", "m"}

\* ^\d+\. at offset i: the index after the match, 0 when there is none
NumDotEnd(s, i) ==
    LET k == SkipDigits(s, i)
    IN  IF k > i /\ CharAt(s, k) = "." THEN k + 1 ELSE 0

\* The regular expressions of test_patterns and of the hierarchical
\* extension, matched at the start of head as re.match does.
PatternMatches(id, head) ==
    CASE id = "num."     -> NumDotEnd(head, 1) > 0
      [] id = "num)"     -> LET k == SkipDigits(head, 1)
                            IN  k > 1 /\ CharAt(head, k) = ")"
      [] id = "num-"     -> LET k == SkipDigits(head, 1)
                            IN  k > 1 /\ CharAt(head, k) \in {"-"} \cup WideDashes
      [] id = "let."     -> CharAt(head, 1) \in AsciiLetters /\ CharAt(head, 2) = "."
      [] id = "let)"     -> CharAt(head, 1) \in AsciiLetters /\ CharAt(head, 2) = ")"
      [] id = "roman."   -> LET k == SkipClass(head, 1, RomanLetters)
                            IN  k > 1 /\ CharAt(head, k) = "."
      [] id = "cjk"      -> LET k == SkipDigits(head, 2)
                            IN  /\ CharAt(head, 1) \in {"U+7B2C", "U+7AE0", "U+7BC0", "U+6761", "U+9805",
                                                        "U+76EE", "U+90E8", "U+7DE8", "U+5DFB", "U+518A"}
                                /\ CharAt(head, k) \in {"U+7AE0", "U+7BC0", "U+6761", "U+9805", "U+76EE"}
      [] id = "circled"  -> CharAt(head, 1) \in CircledNumbers
      [] id = "arabic."  -> LET k == SkipClass(head, 1, ArabicDigits)
                            IN  k > 1 /\ CharAt(head, k) = "."
      [] id = "persian." -> LET k == SkipClass(head, 1, PersianDigits)
                            IN  k > 1 /\ CharAt(head, k) = "."
      [] id = "O."       -> /\ CharAt(head, 1) \in {"O", "o", "0"}
                            /\ CharAt(head, SkipDigits(head, 2)) = "."
      [] id = "I."       -> /\ CharAt(head, 1) \in {"I", "l", "1"}
                            /\ CharAt(head, SkipDigits(head, 2)) = "."
      [] id = "num.num." -> LET a == NumDotEnd(head, 1)
                            IN  a > 0 /\ NumDotEnd(head, a) > 0
      [] id = "num.num.num." ->
                            LET a == NumDotEnd(head, 1)
                                b == IF a > 0 THEN NumDotEnd(head, a) ELSE 0
                            IN  b > 0 /\ NumDotEnd(head, b) > 0

\* test_patterns, in the order of the source: (pattern, tag)
test_patterns ==
    << <<"num.", "x.">>, <<"num)", "x)">>, <<"num-", "x-">>,
       <<"let.", "A.">>, <<"let)", "A)">>,
       <<"roman.", "I.">>,
       <<"cjk", "x.">>, <<"circled", "x.">>,
       <<"arabic.", "x.">>, <<"persian.", "x.">>,
       <<"O.", "x.">>, <<"I.", "x.">> >>

hierarchical_patterns ==
    << <<"num.num.", "x.y.">>, <<"num.num.num.", "x.y.z.">> >>

\* ^[A-Za-z0-9]+[.\)-]
LooksLikeNumbering(s) ==
    LET k == SkipClass(s, 1, AsciiLetters \cup Digits)
    IN  k > 1 /\ CharAt(s, k) \in {".", ")", "-"}

\* ocr_fixes
OcrFix(c) ==
    CASE c = "O" -> "0" [] c = "l" -> "1" [] c = "I" -> "1"
      [] c = "S" -> "5" [] c = "G" -> "6" [] OTHER -> c

_clean_ocr_text(text0) ==
    LET text == Strip(CollapseWs(text0, 1))
    IN  IF /\ LooksLikeNumbering(text)
           /\ text[1] \in {"O", "l", "I", "S", "G"}
           /\ Len(text) > 1
           /\ text[2] \in Digits \cup {".", ")", "-"}
        THEN <<OcrFix(text[1])>> \o Tail(text)
        ELSE text

\* the heads collected from the blocks, in block order
RECURSIVE NumberingCandidates(_)
NumberingCandidates(blocks) ==
    IF Len(blocks) = 0 THEN << >>
    ELSE LET head == Strip(Take(blocks[1].text, 15))
             cleaned == _clean_ocr_text(head)
         IN  (IF Len(head) > 0 /\ Len(head) < 10 /\ Len(cleaned) > 0
              THEN <<cleaned>> ELSE << >>)
             \o NumberingCandidates(Tail(blocks))

\* c.split('.') has more than two parts
CountChar(s, c) == Cardinality({i \in 1..Len(s) : s[i] = c})

detect_numbering_patterns(blocks) ==
    LET cands == NumberingCandidates(blocks)
        Found(p) == \E i \in 1..Len(cands) : PatternMatches(p[1], cands[i])
        patterns == SelectSeq(test_patterns, Found)
        hier == \E i \in 1..Len(cands) : CountChar(cands[i], ".") >= 2
    IN  IF (\E i \in 1..Len(patterns) : patterns[i][2] = "x.") /\ hier
        THEN patterns \o hierarchical_patterns
        ELSE patterns

\* TextBlock._detect_bold: basic_keywords
basic_keywords ==
    <<<<"b", "o", "l", "d">>,
      <<"b", "l", "a", "c", "k">>,
      <<"h", "e", "a", "v", "y">>,
      <<"d", "e", "m", "i">>,
      <<"s", "e", "m", "i">>>>

\* detect_font_indicators: the weight words
weight_words ==
    <<<<"b", "o", "l", "d">>,
      <<"b", "l", "a", "c", "k">>,
      <<"h", "e", "a", "v", "y">>,
      <<"d", "e", "m", "i">>,
      <<"s", "e", "m", "i">>,
      <<"m", "e", "d", "i", "u", "m">>,
      <<"t", "h", "i", "c", "k">>>>

\* detect_font_indicators: international bold indicators
intl_weight_words ==
    <<<<"g", "r", "a", "s">>,
      <<"f", "e", "t", "t">>,
      <<"g", "r", "a", "s", "s", "e", "t", "t", "o">>,
      <<"n", "e", "g", "r", "i", "t", "o">>,
      <<"n", "e", "g", "r", "i", "t", "a">>>>

\* detect_font_indicators: the fallback set
default_bold_indicators ==
    <<<<"b", "o", "l", "d">>,
      <<"b", "l", "a", "c", "k">>,
      <<"h", "e", "a", "v", "y">>>>

OCR_FONT == <<"O", "C", "R", "-", "F", "o", "n", "t">>

SeqToSet(s) == {s[i] : i \in 1..Len(s)}

\* first index >= i that holds a separator of [-_\s]
RECURSIVE SkipToSep(_, _)
SkipToSep(s, i) ==
    IF i <= Len(s) /\ s[i] \notin {"-", "_"} \cup Whitespace
    THEN SkipToSep(s, i + 1) ELSE i

\* re.split(r'[-_\s]', s): the set of the parts of s from index i on
RECURSIVE SplitFontName(_, _)
SplitFontName(s, i) ==
    LET k == SkipToSep(s, i)
    IN  {SubSeq(s, i, k - 1)} \cup (IF k > Len(s) THEN {} ELSE SplitFontName(s, k + 1))

detect_font_indicators(blocks) ==
    LET font_names == {ToLower(blocks[i].font_name) :
                          i \in {j \in 1..Len(blocks) : blocks[j].font_name # OCR_FONT}}
        words == UNION {SplitFontName(f, 1) : f \in font_names}
        bold_indicators == words \cap (SeqToSet(weight_words) \cup SeqToSet(intl_weight_words))
    IN  IF bold_indicators = {} THEN SeqToSet(default_bold_indicators)
        ELSE bold_indicators

\* detect_content_indicators: academic_keywords
academic_keywords ==
    <<<<"a", "b", "s", "t", "r", "a", "c", "t">>,
      <<"i", "n", "t", "r", "o", "d", "u", "c", "t", "i", "o", "n">>,
      <<"c", "o", "n", "c", "l", "u", "s", "i", "o", "n">>,
      <<"r", "e", "f", "e", "r", "e", "n", "c", "e", "s">>,
      <<"b", "i", "b", "l", "i", "o", "g", "r", "a", "p", "h", "y">>,
      <<"c", "o", "n", "f", "e", "r", "e", "n", "c", "e">>,
      <<"s", "y", "m", "p", "o", "s", "i", "u", "m">>,
      <<"w", "o", "r", "k", "s", "h", "o", "p">>,
      <<"p", "r", "o", "c", "e", "e", "d", "i", "n", "g", "s">>,
      <<"p", "a", "p", "e", "r">>,
      <<"r", "e", "s", "e", "a", "r", "c", "h">>,
      <<"s", "t", "u", "d", "y">>,
      <<"a", "n", "a", "l", "y", "s", "i", "s">>,
      <<"m", "e", "t", "h", "o", "d">>,
      <<"r", "e", "s", "u", "l", "t", "s">>>>

\* detect_content_indicators: social_keywords
social_keywords ==
    <<<<"i", "n", "v", "i", "t", "a", "t", "i", "o", "n">>,
      <<"p", "a", "r", "t", "y">>,
      <<"r", "s", "v", "p">>,
      <<"e", "v", "e", "n", "t">>,
      <<"c", "e", "l", "e", "b", "r", "a", "t", "i", "o", "n">>,
      <<"w", "e", "d", "d", "i", "n", "g">>>>

\* the alternatives of form_patterns[0]
form_words_en ==
    <<<<"n", "a", "m", "e">>,
      <<"e", "m", "a", "i", "l">>,
      <<"p", "h", "o", "n", "e">>,
      <<"a", "d", "d", "r", "e", "s", "s">>,
      <<"d", "a", "t", "e">>,
      <<"t", "i", "m", "e">>>>

\* the alternatives of form_patterns[1]
form_words_fr ==
    <<<<"n", "o", "m">>,
      <<"c", "o", "u", "r", "r", "i", "e", "l">>,
      <<"t", "U+00E9", "l", "U+00E9", "p", "h", "o", "n", "e">>,
      <<"a", "d", "r", "e", "s", "s", "e">>,
      <<"d", "a", "t", "e">>,
      <<"h", "e", "u", "r", "e">>>>

\* the alternatives of form_patterns[2]
form_words_es ==
    <<<<"n", "o", "m", "b", "r", "e">>,
      <<"c", "o", "r", "r", "e", "o">>,
      <<"t", "e", "l", "U+00E9", "f", "o", "n", "o">>,
      <<"d", "i", "r", "e", "c", "c", "i", "U+00F3", "n">>,
      <<"f", "e", "c", "h", "a">>,
      <<"h", "o", "r", "a">>>>

\* the alternatives of form_patterns[3]
form_words_zh ==
    <<<<"U+59D3", "U+540D">>,
      <<"U+90AE", "U+7BB1">>,
      <<"U+7535", "U+8BDD">>,
      <<"U+5730", "U+5740">>,
      <<"U+65E5", "U+671F">>,
      <<"U+65F6", "U+95F4">>>>

\* ocr_subs of _create_fuzzy_pattern, in dict order
ocr_subs ==
    << <<"o", <<"[", "o", "0", "]">>>>,
       <<"i", <<"[", "i", "l", "1", "]">>>>,
       <<"l", <<"[", "i", "l", "1", "]">>>>,
       <<"s", <<"[", "s", "5", "]">>>>,
       <<"g", <<"[", "g", "6", "]">>>> >>

\* str.replace(c, r) for a one-character c
RECURSIVE ReplaceChar(_, _, _)
ReplaceChar(s, c, r) ==
    IF Len(s) = 0 THEN << >>
    ELSE (IF s[1] = c THEN r ELSE <<s[1]>>) \o ReplaceChar(Tail(s), c, r)

\* the loop over ocr_subs: each substitution acts on the text the earlier
\* ones produced
RECURSIVE ApplyOcrSubs(_, _)
ApplyOcrSubs(w, k) ==
    IF k > Len(ocr_subs) THEN w
    ELSE ApplyOcrSubs(IF \E i \in 1..Len(w) : w[i] = ocr_subs[k][1]
                      THEN ReplaceChar(w, ocr_subs[k][1], ocr_subs[k][2])
                      ELSE w, k + 1)

\* index of the first "]" at or after i (Len(p)+1 when there is none)
RECURSIVE FindClose(_, _)
FindClose(p, i) ==
    IF i <= Len(p) /\ p[i] # "]" THEN FindClose(p, i + 1) ELSE i

\* the regular expression p (literals and [...] classes) as the sequence of
\* the character sets it matches, read as the re module reads it
RECURSIVE ParseRegex(_, _)
ParseRegex(p, i) ==
    IF i > Len(p) THEN << >>
    ELSE IF p[i] = "[" /\ FindClose(p, i + 1) <= Len(p)
         THEN LET j == FindClose(p, i + 1)
              IN  <<{p[k] : k \in (i + 1)..(j - 1)}>> \o ParseRegex(p, j + 1)
         ELSE <<{p[i]}>> \o ParseRegex(p, i + 1)

\* the alternatives of the pattern _create_fuzzy_pattern returns
_create_fuzzy_pattern(word) ==
    IF Len(word) <= 4 THEN {ParseRegex(word, 1)}
    ELSE {ParseRegex(word, 1), ParseRegex(ApplyOcrSubs(word, 1), 1)}

\* re.IGNORECASE match of the element sequence elems at offset i; the
\* keywords the patterns are made from are in lower case
ElemsMatchAt(text, i, elems) ==
    /\ i + Len(elems) - 1 <= Len(text)
    /\ \A k \in 1..Len(elems) : ToLowerChar(text[i + k - 1]) \in elems[k]

\* re.search(pattern, text, re.IGNORECASE) for a set of alternatives; an
\* alternative can only match a text that holds a character of each of its
\* elements, and only those alternatives are tried at every offset
RegexSearch(alts, text) ==
    LET chars == {ToLowerChar(text[i]) : i \in 1..Len(text)}
    IN  \E elems \in alts :
            /\ \A k \in 1..Len(elems) : elems[k] \cap chars # {}
            /\ \E i \in 1..Len(text) : ElemsMatchAt(text, i, elems)

academic_patterns ==
    [i \in 1..Len(academic_keywords) |-> _create_fuzzy_pattern(academic_keywords[i])]

social_patterns ==
    [i \in 1..Len(social_keywords) |-> _create_fuzzy_pattern(social_keywords[i])]

\* \b(word)\s*[::] at offset i, ignoring case
FormFieldAt(text, i, word) ==
    /\ i = 1 \/ ~IsWordChar(text[i - 1])
    /\ i + Len(word) - 1 <= Len(text)
    /\ \A k \in 1..Len(word) : ToLowerChar(text[i + k - 1]) = word[k]
    /\ CharAt(text, SkipWs(text, i + Len(word))) \in {":", FullwidthColon}

\* re.findall of one form pattern: the matched words, as they stand in
\* text. A match ends where \s*[::] begins, so only the offsets in front of
\* such a place are tried.
FormMatches(text, words) ==
    LET ColonAt(j) == CharAt(text, SkipWs(text, j)) \in {":", FullwidthColon}
        ends == {j \in 1..Len(text) : ColonAt(j)}
    IN  {SubSeq(text, p[1] - Len(words[p[2]]), p[1] - 1) :
            p \in {q \in ends \X (1..Len(words)) :
                      /\ q[1] > Len(words[q[2]])
                      /\ FormFieldAt(text, q[1] - Len(words[q[2]]), words[q[2]])}}

\* ' '.join(block.text.lower() for block in text_blocks)
RECURSIVE JoinLowerTexts(_)
JoinLowerTexts(blocks) ==
    IF Len(blocks) = 0 THEN << >>
    ELSE IF Len(blocks) = 1 THEN ToLower(blocks[1].text)
    ELSE ToLower(blocks[1].text) \o SP \o JoinLowerTexts(Tail(blocks))

detect_content_indicators(blocks) ==
    LET all_text == CollapseWs(JoinLowerTexts(blocks), 1)
    IN  [academic |-> {academic_keywords[i] : i \in
                          {j \in 1..Len(academic_keywords) :
                              RegexSearch(academic_patterns[j], all_text)}},
         form     |-> FormMatches(all_text, form_words_en)
                      \cup FormMatches(all_text, form_words_fr)
                      \cup FormMatches(all_text, form_words_es)
                      \cup FormMatches(all_text, form_words_zh),
         social   |-> {social_keywords[i] : i \in
                          {j \in 1..Len(social_keywords) :
                              RegexSearch(social_patterns[j], all_text)}}]

(***************************************************************************)
(* TextBlock                                                               *)
(***************************************************************************)
_clean_text(text) ==
    IF Len(text) = 0 THEN text
    ELSE Strip(SpaceAfterPunct(DropWsBeforePunct(CollapseWs(text, 1), 1), 1))

_detect_bold(font_name, is_ocr_text) ==
    IF is_ocr_text THEN FALSE
    ELSE \E i \in 1..Len(basic_keywords) : Contains(ToLower(font_name), basic_keywords[i])

\* the CJK test of _categorize_text_case
IsCaseCJK(c) == c \in CJKIdeographs \cup Kana \cup Hangul

_categorize_text_case(text, is_ocr_text) ==
    IF Len(text) = 0 THEN "Lower"
    ELSE IF \E i \in 1..Len(text) : IsCaseCJK(text[i])
    THEN IF Len(Strip(text)) <= 8 /\ ~(\E i \in 1..Len(text) : IsDigit(text[i]))
         THEN "Title Case" ELSE "Lower"
    ELSE LET letters_only == SelectSeq(text, IsLetter)
             total_letters == Len(letters_only)
             upper_count == Cardinality({i \in 1..total_letters : IsUpperChar(letters_only[i])})
             words == Split(text)
         IN  IF total_letters = 0 THEN "Lower"
             ELSE IF is_ocr_text
             THEN IF upper_count * 10 >= 8 * total_letters THEN "UPPER"
                  ELSE IF upper_count * 10 >= 3 * total_letters /\ IsUpperChar(text[1])
                  THEN "Title Case" ELSE "Lower"
             ELSE IF upper_count = total_letters THEN "UPPER"
                  ELSE IF /\ upper_count > 0
                          /\ IsUpperChar(text[1])
                          /\ \A i \in 1..Len(words) :
                                IsLetter(words[i][1]) => IsUpperChar(words[i][1])
                  THEN "Title Case" ELSE "Lower"

\* TextBlock.__init__
TextBlock(text, font_size, font_name, bbox, page_num, is_italic) ==
    LET cleaned == _clean_text(Strip(text))
        ocr == (font_name = OCR_FONT)
    IN  [text              |-> cleaned,
         font_size         |-> font_size,
         font_name         |-> font_name,
         bbox              |-> bbox,
         page_num          |-> page_num,
         is_italic         |-> is_italic,
         is_ocr_text       |-> ocr,
         x_position        |-> bbox[1],
         y_position        |-> bbox[2],
         is_bold           |-> _detect_bold(font_name, ocr),
         text_case         |-> _categorize_text_case(cleaned, ocr),
         char_count        |-> Len(cleaned),
         numbering_pattern |-> "None",
         space_above       |-> 0,
         is_isolated       |-> FALSE,
         is_centered       |-> FALSE,
         heading_score     |-> 0]

\* the four substitutions of _clean_ocr_numbering, applied in order
OcrFixLeadingO(t) ==
    IF CharAt(t, 1) \in {"O", "o"} /\ IsDigit(CharAt(t, 2)) THEN <<"0">> \o Tail(t) ELSE t

OcrFixLeadingI(t) ==
    IF CharAt(t, 1) \in {"I", "l"} /\ IsDigit(CharAt(t, 2)) THEN <<"1">> \o Tail(t) ELSE t

OcrFixTrailingI(t) ==
    LET k == SkipDigits(t, 1)
    IN  IF k > 1 /\ CharAt(t, k) \in {"I", "l", "L"} /\ CharAt(t, k + 1) = "."
        THEN SubSeq(t, 1, k - 1) \o Drop(t, k + 1) ELSE t

OcrFixDotSpacing(t) ==
    LET k == SkipDigits(t, 1)
        d == SkipWs(t, k)
    IN  IF k > 1 /\ CharAt(t, d) \in {".", "U+3002"}
        THEN SubSeq(t, 1, k - 1) \o <<".">> \o Drop(t, d + 1) ELSE t

_clean_ocr_numbering(text) ==
    OcrFixDotSpacing(OcrFixTrailingI(OcrFixLeadingI(OcrFixLeadingO(text))))

\* TextBlock.detect_numbering_pattern: the tag of the first learned pattern
\* that matches, "None" for Python's None
RECURSIVE FirstMatchingTag(_, _)
FirstMatchingTag(head, patterns) ==
    IF Len(patterns) = 0 THEN "None"
    ELSE IF PatternMatches(patterns[1][1], head) THEN patterns[1][2]
    ELSE FirstMatchingTag(head, Tail(patterns))

detect_numbering_pattern(block, learned_patterns) ==
    LET head0 == Strip(Take(block.text, 25))
        head == IF block.is_ocr_text THEN _clean_ocr_numbering(head0) ELSE head0
    IN  FirstMatchingTag(head, learned_patterns)

(***************************************************************************)
(* DocumentAnalyzer                                                        *)
(***************************************************************************)
\* DocumentAnalyzer.__init__; has_tiers tells whether the attribute
\* heading_size_tiers exists (the constructor does not create it)
NewAnalyzer ==
    [text_blocks           |-> << >>,
     page_width            |-> 0,
     baseline_font_size    |-> 0,
     learned_patterns      |-> << >>,
     learned_bold_keywords |-> {},
     document_indicators   |-> [academic |-> {}, form |-> {}, social |-> {}],
     has_tiers             |-> FALSE,
     heading_size_tiers    |-> << >>]

RECURSIVE SumSeq(_)
SumSeq(s) == IF Len(s) = 0 THEN 0 ELSE s[1] + SumSeq(Tail(s))

\* the is_bold a block gets in _learn_document_patterns
LearnedBold(block, blocks, learned_bold_keywords) ==
    IF block.is_ocr_text
    THEN LET NotOcr(b) == ~b.is_ocr_text
             sizes == [i \in 1..Len(SelectSeq(blocks, NotOcr)) |->
                          SelectSeq(blocks, NotOcr)[i].font_size]
             all_sizes == [i \in 1..Len(blocks) |-> blocks[i].font_size]
         IN  IF Len(sizes) > 0
             THEN block.font_size * Len(sizes) * 10 > SumSeq(sizes) * 12
             ELSE block.font_size * Len(all_sizes) * 100 > SumSeq(all_sizes) * 115
    ELSE IF learned_bold_keywords # {}
         THEN \E k \in learned_bold_keywords : Contains(ToLower(block.font_name), k)
         ELSE block.is_bold

_pass1_block(blocks, i, page_width) ==
    LET b == blocks[i]
    IN  [b EXCEPT
           !.space_above = IF i > 1 /\ b.page_num = blocks[i - 1].page_num
                           THEN b.y_position - blocks[i - 1].bbox[4]
                           ELSE @,
           !.is_centered = Abs(page_width - (b.bbox[1] + b.bbox[3])) * 5 < page_width * 2]

_pass1(an) ==
    [an EXCEPT !.text_blocks =
        [i \in 1..Len(an.text_blocks) |-> _pass1_block(an.text_blocks, i, an.page_width)]]

\* the module-level _pattern_learner as PatternLearner.__init__ leaves it
NewPatternLearner == [learned_patterns |-> {}]

\* a variant of _learn_document_patterns whose learner keeps the numbering
\* patterns it found and tries them on the documents that follow
_learn_with_memory(an, learner) ==
    LET found == detect_numbering_patterns(an.text_blocks)
        kept == learner.learned_patterns \cup SeqToSet(found)
        Kept(p) == p \in kept
        patterns == SelectSeq(test_patterns \o hierarchical_patterns, Kept)
        keywords == detect_font_indicators(an.text_blocks)
        indicators == detect_content_indicators(an.text_blocks)
    IN  [learner |-> [learner EXCEPT !.learned_patterns = kept],
         an |-> [an EXCEPT
                   !.learned_patterns = patterns,
                   !.learned_bold_keywords = keywords,
                   !.document_indicators = indicators,
                   !.text_blocks =
                       [i \in 1..Len(an.text_blocks) |->
                           [an.text_blocks[i] EXCEPT
                              !.numbering_pattern =
                                  detect_numbering_pattern(an.text_blocks[i], patterns),
                              !.is_bold =
                                  LearnedBold(an.text_blocks[i], an.text_blocks, keywords)]]]]

\* DocumentAnalyzer._learn_document_patterns, with the state it leaves in
\* the shared learner: the three detect_* methods read their argument only
_learn_document_patterns(an, learner) ==
    LET patterns == detect_numbering_patterns(an.text_blocks)
        keywords == detect_font_indicators(an.text_blocks)
        indicators == detect_content_indicators(an.text_blocks)
    IN  [learner |-> learner,
         an |-> [an EXCEPT
                   !.learned_patterns = patterns,
                   !.learned_bold_keywords = keywords,
                   !.document_indicators = indicators,
                   !.text_blocks =
                       [i \in 1..Len(an.text_blocks) |->
                           [an.text_blocks[i] EXCEPT
                              !.numbering_pattern =
                                  detect_numbering_pattern(an.text_blocks[i], patterns),
                              !.is_bold =
                                  LearnedBold(an.text_blocks[i], an.text_blocks, keywords)]]]]

\* a variant of the list body without its "or self.text_blocks"
BodyBlocksNoFallback(blocks) ==
    LET IsBody(b) == b.char_count > 10 /\ b.font_size >= Pt(8)
    IN  SelectSeq(blocks, IsBody)

\* the list body of _pass2
BodyBlocks(blocks) ==
    LET IsBody(b) == b.char_count > 10 /\ b.font_size >= Pt(8)
        body == SelectSeq(blocks, IsBody)
    IN  IF Len(body) > 0 THEN body ELSE blocks

CountOf(sizes, v) == Cardinality({i \in 1..Len(sizes) : sizes[i] = v})

\* Counter(sizes).most_common(1)[0][0]: the first inserted of the most
\* frequent sizes
MostCommon(sizes) ==
    LET best == CHOOSE i \in 1..Len(sizes) :
                   /\ \A j \in 1..Len(sizes) : CountOf(sizes, sizes[j]) <= CountOf(sizes, sizes[i])
                   /\ \A j \in 1..(i - 1) : CountOf(sizes, sizes[j]) < CountOf(sizes, sizes[i])
    IN  sizes[best]

\* sorted(S, reverse=True) of a set of numbers
RECURSIVE SortedDesc(_)
SortedDesc(S) ==
    IF S = {} THEN << >>
    ELSE LET m == CHOOSE x \in S : \A y \in S : y <= x
         IN  <<m>> \o SortedDesc(S \ {m})

\* the sizes _pass2 collects in size_tiers, largest first
SizeTiers(body, baseline) ==
    LET sizes == [i \in 1..Len(body) |-> body[i].font_size]
        Qualifies(size) ==
            /\ size * 100 >= baseline * 115
            /\ CountOf(sizes, size) >= 2 \/ size * 10 >= baseline * 15
            /\ \E i \in 1..Len(body) : body[i].font_size = size /\ body[i].page_num > 0
    IN  SelectSeq(SortedDesc({sizes[i] : i \in 1..Len(sizes)}), Qualifies)

\* a variant of the slice that keeps every qualifying size
UnslicedTiers(size_tiers) == size_tiers

\* the slice that drops a title-only largest size
HeadingSizeTiers(size_tiers) ==
    IF Len(size_tiers) >= 2 /\ size_tiers[1] * 10 > size_tiers[2] * 13
    THEN SubSeq(size_tiers, 2, Min(5, Len(size_tiers)))
    ELSE SubSeq(size_tiers, 1, Min(4, Len(size_tiers)))

\* list.index, counted from 0
IndexOf(s, v) == (CHOOSE i \in 1..Len(s) : s[i] = v /\ \A j \in 1..(i - 1) : s[j] # v) - 1

InSeq(s, v) == \E i \in 1..Len(s) : s[i] = v

\* int(x * 0.95): truncation toward zero
OcrDiscount(score) ==
    IF score >= 0 THEN (score * 95) \div 100 ELSE 0 - (((0 - score) * 95) \div 100)

\* a variant of the scorer that starts from the score the block already has
AccumulatedScore(b) == b.heading_score

\* "score = 0": what the score of block b starts from
ScoreStart(b) == 0

\* a variant of the bold signal that ignores the size ratio
FlatBoldPoints(b, baseline) == IF b.is_bold THEN 8 ELSE 0

\* the bold signal of _pass2
BoldPoints(b, baseline) ==
    IF ~b.is_bold THEN 0
    ELSE IF b.is_ocr_text
         THEN IF b.font_size * 10 >= 15 * baseline THEN 15
              ELSE IF b.font_size * 10 >= 13 * baseline THEN 12
              ELSE 8
         ELSE IF b.font_size * 10 >= 13 * baseline THEN 12 ELSE 8

\* the score the loop of _pass2 computes for block b
HeadingScore(b, baseline, tiers) ==
    LET size_pts ==
            IF InSeq(tiers, b.font_size) THEN 25 - (IndexOf(tiers, b.font_size) * 3)
            ELSE IF b.font_size >= 2 * baseline THEN 20
            ELSE IF b.font_size * 10 >= 15 * baseline THEN 15
            ELSE IF b.font_size * 10 >= 12 * baseline THEN 10
            ELSE IF b.font_size * 10 >= 11 * baseline THEN 5
            ELSE 0
        bold_pts == BoldPoints(b, baseline)
        numbering_pts == IF b.numbering_pattern # "None" THEN 18 ELSE 0
        case_pts == IF b.text_case = "UPPER" THEN 6
                    ELSE IF b.text_case = "Title Case" THEN 4 ELSE 0
        space_pts == IF b.space_above * 10 > baseline * 15 THEN 10 ELSE 0
        centered_pts == IF b.is_centered /\ b.font_size * 10 >= 12 * baseline THEN 8 ELSE 0
        n == b.char_count
        has_cjk == \E i \in 1..Len(b.text) : b.text[i] \in CJKIdeographs \cup Kana
        length_pts ==
            IF has_cjk
            THEN IF n < 2 THEN -12
                 ELSE IF n <= 8 THEN 3
                 ELSE IF 9 <= n /\ n <= 25 THEN 1
                 ELSE IF n > 35 THEN -3 ELSE 0
            ELSE IF b.is_ocr_text
                 THEN IF n < 3 THEN -10
                      ELSE IF n <= 60 THEN 2
                      ELSE IF n > 120 THEN -5 ELSE 0
                 ELSE IF n < 4 THEN -8
                      ELSE IF n <= 50 THEN 2
                      ELSE IF n > 100 THEN -5 ELSE 0
        small_pts == IF b.font_size * 100 < baseline * 95 THEN -8 ELSE 0
        score == ScoreStart(b) + size_pts + bold_pts + numbering_pts + case_pts + space_pts
                 + centered_pts + length_pts + small_pts
    IN  IF b.is_ocr_text THEN OcrDiscount(score) ELSE score

\* the exception _pass2 raises, "none" when it returns:
\* Counter(sizes).most_common(1)[0] raises IndexError on an empty list, and
\* b.font_size / self.baseline_font_size raises ZeroDivisionError when the
\* baseline is 0
_pass2_exception(an) ==
    LET body == BodyBlocks(an.text_blocks)
    IN  IF Len(body) = 0 THEN "IndexError"
        ELSE IF MostCommon([i \in 1..Len(body) |-> body[i].font_size]) = 0
        THEN "ZeroDivisionError"
        ELSE "none"

_pass2_raises(an) == _pass2_exception(an) # "none"

_pass2(an) ==
    LET body == BodyBlocks(an.text_blocks)
        baseline == MostCommon([i \in 1..Len(body) |-> body[i].font_size])
        tiers == HeadingSizeTiers(SizeTiers(body, baseline))
    IN  [an EXCEPT
           !.baseline_font_size = baseline,
           !.has_tiers = TRUE,
           !.heading_size_tiers = tiers,
           !.text_blocks = [i \in 1..Len(an.text_blocks) |->
                               [an.text_blocks[i] EXCEPT
                                  !.heading_score =
                                      HeadingScore(an.text_blocks[i], baseline, tiers)]]]

(***************************************************************************)
(* _pass3: candidates                                                      *)
(***************************************************************************)
\* sorted(s, key=...) where less[a, b] says key(a) < key(b): stable
\* (equal keys keep their order): the element at place k is the one with
\* k - 1 elements before it
StableSort(s, less) ==
    LET Rank(i) == 1 + Cardinality({j \in 1..Len(s) :
                          less[s[j], s[i]] \/ (~less[s[i], s[j]] /\ j < i)})
    IN  [k \in 1..Len(s) |-> s[CHOOSE i \in 1..Len(s) : Rank(i) = k]]


\* the indices (from 1) of the blocks that satisfy Test, in block order
IndicesWhere(blocks, which) ==
    LET Keep(i) == i \in which
    IN  SelectSeq([i \in 1..Len(blocks) |-> i], Keep)

\* len(set(b.page_num for b in self.text_blocks))
TotalPages(blocks) == Cardinality({blocks[i].page_num : i \in 1..Len(blocks)})

\* re.search over the class of Latin letters, CJK, kana, hangul, Cyrillic
\* and Arabic characters
has_meaningful_content(text) ==
    \E i \in 1..Len(text) :
        text[i] \in AsciiLetters \cup CJKIdeographs \cup Kana \cup Hangul
                    \cup Cyrillic \cup ArabicBlock

VersionPrefix == <<"v", "e", "r", "s", "i", "o", "n", " ">>

\* a variant of the version test that never matches
NoVersionString(text) == FALSE

\* re.match(r'Version \d+\.\d+', text, re.I)
IsVersionString(text) ==
    LET a == NumDotEnd(text, Len(VersionPrefix) + 1)
    IN  /\ MatchAt(ToLower(text), 1, VersionPrefix)
        /\ a > 0
        /\ SkipDigits(text, a) > a

\* the filter of the first loop of _pass3
IsCandidate(b, is_poster, baseline) ==
    /\ ~(b.heading_score < 20 \/ ~has_meaningful_content(b.text))
    /\ ~IsVersionString(b.text)
    /\ ~(/\ \E i \in 1..Len(b.text) : b.text[i] \in Kana
         /\ Len(Strip(b.text)) <= 3
         /\ b.numbering_pattern = "None"
         /\ b.font_size * 10 < baseline * 14)
    /\ IF is_poster
       THEN /\ ~(b.font_size * 10 < baseline * 13 /\ b.heading_score < 30)
            /\ ~(b.char_count < 8 /\ ~(b.font_size * 10 > baseline * 15) /\ b.char_count > 1)
       ELSE /\ ~(b.numbering_pattern = "None" /\ b.font_size * 100 < baseline * 105)
            /\ ~(b.char_count <= 4 /\ b.numbering_pattern = "None" /\ b.heading_score < 35)

\* candidates, as indices into text_blocks
Candidates(an) ==
    LET is_poster == TotalPages(an.text_blocks) = 1
        Keep(b) == IsCandidate(b, is_poster, an.baseline_font_size)
    IN  IndicesWhere(an.text_blocks,
                     {i \in 1..Len(an.text_blocks) : Keep(an.text_blocks[i])})

(***************************************************************************)
(* _pass3: the title                                                       *)
(***************************************************************************)
\* sorted(first_page_blocks, key=lambda b: (-b.font_size, b.y_position))
SortedFirstPage(blocks) ==
    LET OnFirstPage(b) == b.page_num = 0
        Less(i, j) == \/ blocks[i].font_size > blocks[j].font_size
                      \/ /\ blocks[i].font_size = blocks[j].font_size
                         /\ blocks[i].y_position < blocks[j].y_position
        first_page == IndicesWhere(blocks, {i \in 1..Len(blocks) : OnFirstPage(blocks[i])})
    IN  StableSort(first_page,
                   [a \in SeqToSet(first_page), b \in SeqToSet(first_page) |-> Less(a, b)])

\* the index of the first group whose key lies within max(font_size * 0.15, 3)
\* of the candidate's y_position, 0 when there is none
FindYGroup(groups, b) ==
    LET near == {g \in 1..Len(groups) :
                    Abs(b.y_position - groups[g].y) * 100 <= Max(b.font_size * 15, Pt(3) * 100)}
    IN  IF near = {} THEN 0 ELSE CHOOSE g \in near : \A h \in near : g <= h

\* the dict y_groups, in insertion order
RECURSIVE YGroups(_, _, _, _)
YGroups(blocks, cands, k, groups) ==
    IF k > Len(cands) THEN groups
    ELSE LET b == blocks[cands[k]]
             g == FindYGroup(groups, b)
         IN  YGroups(blocks, cands, k + 1,
                     IF g > 0
                     THEN [groups EXCEPT ![g].members = Append(@, cands[k])]
                     ELSE Append(groups, [y |-> b.y_position, members |-> <<cands[k]>>]))

\* group.sort(key=lambda x: x.x_position)
SortByX(blocks, group) ==
    LET Less(i, j) == blocks[i].x_position < blocks[j].x_position
    IN  StableSort(group,
                   [a \in SeqToSet(group), b \in SeqToSet(group) |-> Less(a, b)])

\* the loop that builds merged_text from one group (sorted by x)
RECURSIVE MergeLine(_, _, _, _, _)
MergeLine(blocks, group, k, merged_text, last_end_x) ==
    IF k > Len(group) THEN merged_text
    ELSE LET block == blocks[group[k]]
             text == Strip(block.text)
         IN  IF block.x_position * 10 < last_end_x * 10 + block.font_size * 2
             THEN IF Contains(merged_text, text) \/ EndsWith(merged_text, Take(text, 3))
                  THEN MergeLine(blocks, group, k + 1, merged_text, last_end_x)
                  ELSE MergeLine(blocks, group, k + 1, merged_text \o text, block.bbox[3])
             ELSE MergeLine(blocks, group, k + 1,
                            IF Len(merged_text) > 0 /\ ~EndsWith(merged_text, SP)
                            THEN merged_text \o SP \o text
                            ELSE merged_text \o text,
                            block.bbox[3])

\* [a-z...] and [A-Z...] of the word-boundary substitution
BoundaryShared == CJKIdeographs \cup ArabicBlock \cup Cyrillic

\* re.sub(r'([a-z..])([A-Z..])', r'\1 \2', s)
RECURSIVE InsertCaseBoundary(_, _)
InsertCaseBoundary(s, i) ==
    IF i > Len(s) THEN << >>
    ELSE IF /\ i < Len(s)
            /\ s[i] \in LowerLetters \cup BoundaryShared
            /\ s[i + 1] \in UpperLetters \cup BoundaryShared
         THEN <<s[i], " ", s[i + 1]>> \o InsertCaseBoundary(s, i + 2)
         ELSE <<s[i]>> \o InsertCaseBoundary(s, i + 1)

\* the loop that builds cleaned_words
DropRepeatedWords(words) ==
    LET Dropped(i) ==
            /\ i > 1
            /\ \/ words[i] = words[i - 1]
               \/ /\ Len(words[i]) > 3
                  /\ Len(words[i - 1]) > 3
                  /\ Contains(ToLower(words[i - 1]), ToLower(words[i]))
        Kept(i) == ~Dropped(i)
        kept == SelectSeq([i \in 1..Len(words) |-> i], Kept)
    IN  [k \in 1..Len(kept) |-> words[kept[k]]]

\* the title of a multi-page document from its title_lines
TitleFromLines(title_lines) ==
    LET joined == CollapseWs(Join(title_lines, SP), 1)
    IN  Join(DropRepeatedWords(Split(InsertCaseBoundary(joined, 1))), SP)

\* the branch total_pages > 1: the title and the blocks it was built from
MultiPageTitle(blocks) ==
    LET sorted_fp == SortedFirstPage(blocks)
        max_fs == blocks[sorted_fp[1]].font_size
        Large(i) == blocks[i].font_size * 100 >= max_fs * 85
        groups == YGroups(blocks, SelectSeq(sorted_fp, Large), 1, << >>)
        ByY(g, h) == g.y < h.y
        lines == StableSort(groups,
                            [a \in SeqToSet(groups), b \in SeqToSet(groups) |-> ByY(a, b)])
        sorted_members == [g \in 1..Len(lines) |-> SortByX(blocks, lines[g].members)]
        merged == [g \in 1..Len(lines) |->
                      Strip(MergeLine(blocks, sorted_members[g], 1, << >>, -Pt(1000)))]
        NonEmpty(g) == Len(merged[g]) > 0
        used == SelectSeq([g \in 1..Len(lines) |-> g], NonEmpty)
        title_lines == [k \in 1..Len(used) |-> merged[used[k]]]
    IN  [title        |-> IF Len(title_lines) > 0 THEN TitleFromLines(title_lines) ELSE << >>,
         title_blocks |-> UNION {SeqToSet(sorted_members[used[k]]) : k \in 1..Len(used)}]

\* the first of title_candidates[:3] that is centered or large and longer
\* than 3 characters, as a sequence of at most one index
SinglePageTitleBlocks(blocks) ==
    LET sorted_fp == SortedFirstPage(blocks)
        max_fs == blocks[sorted_fp[1]].font_size
        Large(i) == blocks[i].font_size * 10 >= max_fs * 8
        title_candidates == Take(SelectSeq(sorted_fp, Large), 3)
        Fits(i) == /\ blocks[i].is_centered \/ blocks[i].font_size * 10 >= max_fs * 9
                   /\ Len(Strip(blocks[i].text)) > 3
    IN  Take(SelectSeq(title_candidates, Fits), 1)

\* the list comprehension of the branch for total_pages < 1
CenteredLargeBlocks(blocks) ==
    LET sorted_fp == SortedFirstPage(blocks)
        max_fs == blocks[sorted_fp[1]].font_size
        Fits(i) == blocks[i].font_size * 10 >= max_fs * 9 /\ blocks[i].is_centered
    IN  SelectSeq(sorted_fp, Fits)

\* the title of the branch total_pages <= 1 from its title_blocks
TitleFromBlocks(blocks, title_blocks) ==
    LET Less(i, j) == blocks[i].y_position < blocks[j].y_position
        sorted == StableSort(title_blocks,
                             [a \in SeqToSet(title_blocks), b \in SeqToSet(title_blocks) |-> Less(a, b)])
    IN  IF Len(sorted) = 0 THEN << >>
        ELSE IF Len(sorted) = 1 THEN Strip(blocks[sorted[1]].text)
        ELSE Strip(Join([k \in 1..Len(sorted) |-> Strip(blocks[sorted[k]].text)], SP))

\* lines 511-602: the title and the set of the (indices of the) blocks in
\* title_blocks
ResolveTitle(blocks) ==
    IF \A i \in 1..Len(blocks) : blocks[i].page_num # 0
    THEN [title |-> << >>, title_blocks |-> {}]
    ELSE IF TotalPages(blocks) > 1 THEN MultiPageTitle(blocks)
    ELSE LET title_blocks == IF TotalPages(blocks) = 1
                             THEN SinglePageTitleBlocks(blocks)
                             ELSE CenteredLargeBlocks(blocks)
         IN  [title        |-> TitleFromBlocks(blocks, title_blocks),
              title_blocks |-> SeqToSet(title_blocks)]

(***************************************************************************)
(* _pass3: single-page documents                                           *)
(***************************************************************************)
\* f"H{n}"
LevelName(n) == "H" \o ToString(n)

\* one outline entry, with the indices of the blocks it was built from
Entry(level, text, page, source) ==
    [entry |-> [level |-> level, text |-> text, page |-> page], source |-> source]

\* label.upper() + ':' == text_upper for one of the form indicators
is_field_label(b, form_indicators) ==
    \E label \in form_indicators : ToUpper(label) \o <<":">> = ToUpper(Strip(b.text))

\* re.search(r'www\.|\.com|@|\d{5}|\(\d{3}\)', text)
LooksLikeContact(text) ==
    \/ Contains(text, <<"w", "w", "w", ".">>)
    \/ Contains(text, <<".", "c", "o", "m">>)
    \/ Contains(text, <<"@">>)
    \/ \E i \in 1..Len(text) : SkipDigits(text, i) >= i + 5
    \/ \E i \in 1..Len(text) :
          /\ text[i] = "("
          /\ i + 4 <= Len(text)
          /\ \A k \in 1..3 : IsDigit(text[i + k])
          /\ text[i + 4] = ")"

\* poster_candidates, as indices
PosterCandidates(an, candidates) ==
    LET Keep(i) ==
            LET b == an.text_blocks[i]
            IN  /\ ~is_field_label(b, an.document_indicators.form)
                /\ ~LooksLikeContact(ToLower(b.text))
                /\ ~(b.char_count > 50 /\ b.font_size < an.baseline_font_size)
    IN  SelectSeq(candidates, Keep)

\* min over phrase_blocks of the two horizontal distances to other
XGap(blocks, phrase, other) ==
    LET gaps == UNION {{Abs(blocks[other].x_position - blocks[p].bbox[3]),
                        Abs(blocks[p].x_position - blocks[other].bbox[3])} :
                          p \in SeqToSet(phrase)}
    IN  CHOOSE g \in gaps : \A h \in gaps : g <= h

\* the inner loop "for other in sorted_candidates"
RECURSIVE GrowPhrase(_, _, _, _, _, _)
GrowPhrase(blocks, sorted, k, candidate, phrase, used) ==
    IF k > Len(sorted) THEN [phrase |-> phrase, used |-> used]
    ELSE LET other == sorted[k]
             joins ==
                /\ other \notin used
                /\ Abs(blocks[other].y_position - blocks[candidate].y_position) * 10
                      <= Max(blocks[candidate].font_size, Pt(2) * 10)
                /\ XGap(blocks, phrase, other) < Max(blocks[candidate].font_size * 2, Pt(20))
         IN  IF joins
             THEN GrowPhrase(blocks, sorted, k + 1, candidate,
                             Append(phrase, other), used \cup {other})
             ELSE GrowPhrase(blocks, sorted, k + 1, candidate, phrase, used)

\* the outer loop "for candidate in sorted_candidates": phrase_groups
RECURSIVE PhraseGroups(_, _, _, _, _)
PhraseGroups(blocks, sorted, k, used, groups) ==
    IF k > Len(sorted) THEN groups
    ELSE IF sorted[k] \in used THEN PhraseGroups(blocks, sorted, k + 1, used, groups)
    ELSE LET grown == GrowPhrase(blocks, sorted, 1, sorted[k], <<sorted[k]>>,
                                 used \cup {sorted[k]})
         IN  PhraseGroups(blocks, sorted, k + 1, grown.used,
                          IF Len(grown.phrase) > 1
                          THEN Append(groups, SortByX(blocks, grown.phrase))
                          ELSE groups)

\* the key of max(phrase_groups, key=...)
GroupMaxFont(blocks, g) ==
    CHOOSE m \in {blocks[i].font_size : i \in SeqToSet(g)} :
        \A i \in SeqToSet(g) : blocks[i].font_size <= m

GroupWordCount(blocks, g) == SumSeq([k \in 1..Len(g) |-> Len(Split(blocks[g[k]].text))])

\* max(phrase_groups, key=...): the first group with the largest key
BestGroup(blocks, groups) ==
    LET Less(g, h) ==
            \/ GroupMaxFont(blocks, g) < GroupMaxFont(blocks, h)
            \/ /\ GroupMaxFont(blocks, g) = GroupMaxFont(blocks, h)
               /\ GroupWordCount(blocks, g) < GroupWordCount(blocks, h)
        best == CHOOSE i \in 1..Len(groups) :
                   /\ \A j \in 1..Len(groups) : ~Less(groups[i], groups[j])
                   /\ \A j \in 1..(i - 1) : Less(groups[j], groups[i])
    IN  groups[best]

\* re.match(r'^[\d\s\-\(\)\.]+$', text)
OnlyDigitsAndPunct(text) ==
    /\ Len(text) > 0
    /\ \A i \in 1..Len(text) :
          IsDigit(text[i]) \/ text[i] \in Whitespace \cup {"-", "(", ")", "."}

\* the page the single-page branches write into their outline entry
SinglePageEntryPage(blocks, source) == 0

\* lines 622-681: the poster strategy
PosterStrategy(an, candidates) ==
    LET blocks == an.text_blocks
        poster_candidates == PosterCandidates(an, candidates)
        Less(i, j) == \/ blocks[i].y_position < blocks[j].y_position
                      \/ /\ blocks[i].y_position = blocks[j].y_position
                         /\ blocks[i].x_position < blocks[j].x_position
        sorted_candidates == StableSort(poster_candidates,
                                        [a \in SeqToSet(poster_candidates), b \in SeqToSet(poster_candidates) |-> Less(a, b)])
        phrase_groups == PhraseGroups(blocks, sorted_candidates, 1, {}, << >>)
        best_group == BestGroup(blocks, phrase_groups)
        combined_text ==
            Strip(Join([k \in 1..Len(best_group) |-> Strip(blocks[best_group[k]].text)], SP))
    IN  IF /\ Len(poster_candidates) > 0
           /\ Len(phrase_groups) > 0
           /\ Len(combined_text) > 5
           /\ ~OnlyDigitsAndPunct(combined_text)
        THEN [title |-> << >>,
              outline |-> <<Entry("H1", combined_text \o SP,
                                  SinglePageEntryPage(blocks, best_group), best_group)>>]
        ELSE [title |-> << >>, outline |-> << >>]

\* max(first_page_blocks, key=lambda b: b.font_size): the first largest
LargestFirstPageBlock(blocks) ==
    CHOOSE i \in 1..Len(blocks) :
        /\ blocks[i].page_num = 0
        /\ \A j \in 1..Len(blocks) :
              blocks[j].page_num = 0 => blocks[j].font_size <= blocks[i].font_size
        /\ \A j \in 1..(i - 1) :
              blocks[j].page_num = 0 => blocks[j].font_size < blocks[i].font_size

\* a variant of the filter that lets every candidate through
AnyHeadingCandidate(b, title_texts, baseline) == TRUE

\* lines 692-695: heading_candidates
IsHeadingCandidate(b, title_texts, baseline) ==
    /\ b.text \notin title_texts
    /\ \/ b.text_case = "UPPER" /\ Len(Strip(b.text)) > 5
       \/ b.font_size * 10 >= baseline * 12

\* lines 682-703: the general strategy of a single-page document
SinglePageGeneral(an, candidates, resolved) ==
    LET blocks == an.text_blocks
        has_first_page == \E i \in 1..Len(blocks) : blocks[i].page_num = 0
        fallback == Len(resolved.title) = 0 /\ has_first_page
        title == IF fallback THEN Strip(blocks[LargestFirstPageBlock(blocks)].text)
                 ELSE resolved.title
        title_texts == {blocks[i].text : i \in resolved.title_blocks}
                       \cup (IF fallback THEN {blocks[LargestFirstPageBlock(blocks)].text}
                             ELSE {})
        Keep(i) == IsHeadingCandidate(blocks[i], title_texts, an.baseline_font_size)
        heading_candidates == SelectSeq(candidates, Keep)
        Less(i, j) == \/ blocks[i].y_position < blocks[j].y_position
                      \/ /\ blocks[i].y_position = blocks[j].y_position
                         /\ blocks[i].font_size > blocks[j].font_size
        best_heading == StableSort(heading_candidates,
                                   [a \in SeqToSet(heading_candidates), b \in SeqToSet(heading_candidates) |-> Less(a, b)])[1]
    IN  [title |-> title,
         outline |-> IF Len(heading_candidates) > 0
                     THEN <<Entry("H1", Strip(blocks[best_heading].text),
                                  SinglePageEntryPage(blocks, <<best_heading>>),
                                  <<best_heading>>)>>
                     ELSE << >>]

\* is_poster of lines 612-620
IsPosterDocument(indicators) ==
    \/ Cardinality(indicators.academic) > 0
    \/ Cardinality(indicators.social) > 0
    \/ Cardinality(indicators.form) >= 2

has_numbered_content(blocks) ==
    \E i \in 1..Len(blocks) : blocks[i].numbering_pattern # "None"

(***************************************************************************)
(* _pass3: the hierarchy of a multi-page document                          *)
(***************************************************************************)
\* round(font_size): a size half-way between two whole numbers of points
\* goes to the even one
Round(x) ==
    IF x % Pt(1) = 0 THEN x
    ELSE IF ((x - 1) \div Pt(1)) % 2 = 0 THEN x - 1 ELSE x + 1

\* dict.get(key, default) on a level_map kept as a function
MapGet(map, key, default) == IF key \in DOMAIN map THEN map[key] ELSE default

\* dict[key] = value
MapPut(map, key, value) == [k \in DOMAIN map \cup {key} |-> IF k = key THEN value ELSE map[k]]

\* lines 708-712: the levels of the tiers, for both values of is_bold
TierLevelMap(tiers) ==
    [key \in {<<tiers[i], bold>> : i \in 1..Len(tiers), bold \in BOOLEAN} |->
        LevelName(CHOOSE i \in 1..Len(tiers) :
                      tiers[i] = key[1] /\ \A j \in (i + 1)..Len(tiers) : tiers[j] # key[1])]

\* the index (from 1) of the first tier within 0.5 of font_size, 0 for none
MatchingTier(tiers, font_size) ==
    LET close == {i \in 1..Len(tiers) : Abs(font_size - tiers[i]) * 2 < Pt(1)}
    IN  IF close = {} THEN 0 ELSE CHOOSE i \in close : \A j \in close : i <= j

\* lines 714-726: level_map and the keys of clusters, in insertion order
RECURSIVE ClusterLoop(_, _, _, _, _, _)
ClusterLoop(blocks, candidates, k, tiers, level_map, clusters) ==
    IF k > Len(candidates) THEN [level_map |-> level_map, clusters |-> clusters]
    ELSE LET b == blocks[candidates[k]]
             size_key == <<Round(b.font_size), b.is_bold>>
             t == MatchingTier(tiers, b.font_size)
         IN  IF b.numbering_pattern # "None"
             THEN ClusterLoop(blocks, candidates, k + 1, tiers, level_map, clusters)
             ELSE IF t > 0
             THEN ClusterLoop(blocks, candidates, k + 1, tiers,
                              MapPut(level_map, size_key,
                                     MapGet(level_map, <<tiers[t], b.is_bold>>,
                                            LevelName(Len(tiers) + 1))),
                              clusters)
             ELSE ClusterLoop(blocks, candidates, k + 1, tiers, level_map,
                              IF InSeq(clusters, size_key) THEN clusters
                              ELSE Append(clusters, size_key))

\* the level a remaining cluster gets from level_counter
ClusterLevel(level_counter) == LevelName(Min(level_counter, 6))

\* lines 728-734: the levels of the remaining clusters
RECURSIVE AssignClusters(_, _, _, _)
AssignClusters(remaining, k, level_counter, level_map) ==
    IF k > Len(remaining) THEN level_map
    ELSE AssignClusters(remaining, k + 1, level_counter + 1,
                        IF remaining[k] \in DOMAIN level_map THEN level_map
                        ELSE MapPut(level_map, remaining[k], ClusterLevel(level_counter)))

LevelMap(blocks, candidates, tiers) ==
    LET looped == ClusterLoop(blocks, candidates, 1, tiers, TierLevelMap(tiers), << >>)
        Less(a, b) == a[1] > b[1]
    IN  AssignClusters(StableSort(looped.clusters,
                                  [a \in SeqToSet(looped.clusters), b \in SeqToSet(looped.clusters) |-> Less(a, b)]), 1, Len(tiers) + 1,
                       looped.level_map)

\* a variant of the lookup without the default 'H4'
NoDefaultLevel(level_map, font_key) == MapGet(level_map, font_key, "None")

\* level_map.get(font_key, 'H4')
DefaultLevel(level_map, font_key) == MapGet(level_map, font_key, "H4")

\* lines 745-760: the level of one outline entry
EntryLevel(b, tiers, level_map) ==
    IF b.numbering_pattern = "x." THEN "H1"
    ELSE IF b.numbering_pattern = "x.y." THEN "H2"
    ELSE IF b.numbering_pattern = "x.y.z." THEN "H3"
    ELSE LET t == MatchingTier(tiers, b.font_size)
         IN  IF t > 0 THEN LevelName(t)
             ELSE DefaultLevel(level_map, <<Round(b.font_size), b.is_bold>>)

\* lines 762-765: the text of an entry
EntryText(b) ==
    LET text == Strip(b.text)
    IN  IF ~EndsWith(text, SP) THEN text \o SP ELSE text

\* next((b.y_position for b in self.text_blocks if b.text == x['text']), 0)
SortKeyY(blocks, text) ==
    LET same == {i \in 1..Len(blocks) : blocks[i].text = text}
    IN  IF same = {} THEN 0
        ELSE blocks[CHOOSE i \in same : \A j \in same : i <= j].y_position

\* outline.sort(key=lambda x: (x['page'], ...))
SortOutline(blocks, outline) ==
    LET Less(a, b) ==
            \/ a.entry.page < b.entry.page
            \/ /\ a.entry.page = b.entry.page
               /\ SortKeyY(blocks, a.entry.text) < SortKeyY(blocks, b.entry.text)
    IN  StableSort(outline,
                   [a \in SeqToSet(outline), b \in SeqToSet(outline) |-> Less(a, b)])

\* a variant of the filter that lets the blocks of page 0 and the blocks
\* with the text of a title block through
InOutlineUnfiltered(b, title_texts) ==
    ~(/\ b.numbering_pattern = "None"
      /\ b.text_case = "Lower"
      /\ Len(Strip(b.text)) < 10)

\* lines 738-743: the candidates that get an outline entry
InOutline(b, title_texts) ==
    /\ b.text \notin title_texts
    /\ b.page_num # 0
    /\ ~(/\ b.numbering_pattern = "None"
         /\ b.text_case = "Lower"
         /\ Len(Strip(b.text)) < 10)

\* lines 705-771: the outline of a multi-page document
MultiPageOutline(an, candidates, title_blocks) ==
    LET blocks == an.text_blocks
        tiers == IF an.has_tiers THEN an.heading_size_tiers ELSE << >>
        level_map == LevelMap(blocks, candidates, tiers)
        title_texts == {blocks[i].text : i \in title_blocks}
        Keep(i) == InOutline(blocks[i], title_texts)
        kept == SelectSeq(candidates, Keep)
    IN  SortOutline(blocks,
                    [k \in 1..Len(kept) |->
                        Entry(EntryLevel(blocks[kept[k]], tiers, level_map),
                              EntryText(blocks[kept[k]]),
                              blocks[kept[k]].page_num,
                              <<kept[k]>>)])

\* DocumentAnalyzer._pass3: the title and the outline (each entry with the
\* indices of its source blocks)
_pass3(an) ==
    LET blocks == an.text_blocks
        candidates == Candidates(an)
        resolved == ResolveTitle(blocks)
    IN  IF TotalPages(blocks) = 1
        THEN IF IsPosterDocument(an.document_indicators) /\ ~has_numbered_content(blocks)
             THEN PosterStrategy(an, candidates)
             ELSE SinglePageGeneral(an, candidates, resolved)
        ELSE [title |-> resolved.title,
              outline |-> MultiPageOutline(an, candidates, resolved.title_blocks)]

(***************************************************************************)
(* The documents: what the extractor hands to the analyzer                 *)
(***************************************************************************)
\* one merged line of extract_text_blocks_from_pdf: the arguments of
\* TextBlock(...)
Fragment(text, size, font, bbox, page) ==
    [text |-> text, size |-> Pt(size), font |-> font,
     bbox |-> <<Pt(bbox[1]), Pt(bbox[2]), Pt(bbox[3]), Pt(bbox[4])>>, page |-> page,
     italic |-> FALSE]

ArialBold == <<"A", "r", "i", "a", "l", "-", "B", "o", "l", "d">>

Arial == <<"A", "r", "i", "a", "l">>

HelveticaBlack == <<"H", "e", "l", "v", "e", "t", "i", "c", "a", "-", "B", "l", "a", "c", "k">>

\* fragments of ordinary documents
BodyText ==
    Fragment(<<"p", "l", "a", "i", "n", " ", "b", "o", "d", "y", " ", "t", "e", "x", "t">>,
             10, Arial, <<72, 500, 300, 510>>, 0)

FormLine ==
    Fragment(<<"N", "a", "m", "e", ":", " ", "D", "a", "t", "e", ":">>,
             10, Arial, <<72, 200, 300, 210>>, 0)

WeakHeading ==
    Fragment(<<"C", "h", "a", "p", "t", "e", "r", " ", "O", "n", "e">>,
             12, Arial, <<72, 300, 200, 312>>, 1)

BoldHeading ==
    Fragment(<<"O", "v", "e", "r", "v", "i", "e", "w">>,
             16, ArialBold, <<72, 100, 160, 116>>, 1)

LongNumbered ==
    Fragment(<<"1", ".", " ", "I", "n", "t", "r", "o", "d", "u", "c", "t", "i", "o", "n">>,
             14, ArialBold, <<72, 200, 220, 214>>, 1)

ShortNumbered ==
    Fragment(<<"1", ".", " ", "S", "c", "o", "p", "e">>,
             16, ArialBold, <<72, 400, 150, 416>>, 1)

Lettered ==
    Fragment(<<"A", ".", " ", "S", "c", "o", "p", "e">>,
             16, ArialBold, <<72, 450, 150, 466>>, 1)

GeneralCatalogue ==
    {BodyText, FormLine, WeakHeading, BoldHeading, LongNumbered, ShortNumbered, Lettered}

\* the fragments of the documents the specification gives as examples
ChapterOne20 ==
    Fragment(<<"C", "h", "a", "p", "t", "e", "r", " ", "O", "n", "e">>,
             20, ArialBold, <<200, 100, 400, 120>>, 0)

Introduction14 ==
    Fragment(<<"1", ".", " ", "I", "n", "t", "r", "o", "d", "u", "c", "t", "i", "o", "n">>,
             14, ArialBold, <<72, 100, 220, 114>>, 1)

FlyerHope ==
    Fragment(<<"H", "O", "P", "E">>,
             24, ArialBold, <<100, 300, 160, 324>>, 0)

FlyerTo ==
    Fragment(<<"T", "o">>,
             24, ArialBold, <<170, 300, 200, 324>>, 0)

FlyerSee ==
    Fragment(<<"S", "E", "E">>,
             24, ArialBold, <<210, 300, 260, 324>>, 0)

FlyerYou ==
    Fragment(<<"Y", "o", "u">>,
             24, ArialBold, <<270, 300, 320, 324>>, 0)

FlyerThere ==
    Fragment(<<"T", "H", "E", "R", "E", "!">>,
             24, ArialBold, <<330, 300, 420, 324>>, 0)

OverviewCentered ==
    Fragment(<<"O", "v", "e", "r", "v", "i", "e", "w">>,
             28, ArialBold, <<200, 100, 400, 128>>, 0)

OverviewLeft ==
    Fragment(<<"O", "v", "e", "r", "v", "i", "e", "w">>,
             28, HelveticaBlack, <<20, 100, 100, 128>>, 0)

ArialBoldMT == <<"A", "r", "i", "a", "l", "-", "B", "o", "l", "d", "M", "T">>

\* fragments that exercise the numbering patterns, the candidate filter,
\* the OCR branches and the bold keywords
TwoLevel ==
    Fragment(<<"1", ".", "2", ".", " ", "U", "s", "e">>,
             14, ArialBold, <<72, 200, 150, 214>>, 1)

ThreeLevel ==
    Fragment(<<"1", ".", "2", ".", "3", ".", " ", "G", "o">>,
             14, ArialBold, <<72, 300, 150, 314>>, 1)

VersionLine ==
    Fragment(<<"V", "e", "r", "s", "i", "o", "n", " ", "1", ".", "2">>,
             16, ArialBold, <<72, 100, 160, 116>>, 1)

YearLine ==
    Fragment(<<"2", "0", "2", "4">>,
             16, ArialBold, <<72, 200, 160, 216>>, 1)

LateHeading ==
    Fragment(<<"O", "v", "e", "r", "v", "i", "e", "w">>,
             16, ArialBold, <<72, 300, 160, 316>>, 1)

OcrHeading ==
    Fragment(<<"O", "v", "e", "r", "v", "i", "e", "w">>,
             16, OCR_FONT, <<72, 100, 160, 116>>, 1)

BoldMTHeading ==
    Fragment(<<"O", "v", "e", "r", "v", "i", "e", "w">>,
             16, ArialBoldMT, <<72, 100, 160, 116>>, 1)

BlackHeading ==
    Fragment(<<"O", "v", "e", "r", "v", "i", "e", "w">>,
             28, HelveticaBlack, <<20, 100, 100, 128>>, 1)

CjkHeading ==
    Fragment(<<"U+7B2C", "1", "U+7AE0">>,
             16, ArialBold, <<72, 100, 160, 116>>, 1)

\* a one-page poster: a small line naming the event and two large words on
\* one visual line
PartyLine ==
    Fragment(<<"c", "o", "m", "e", " ", "t", "o", " ", "o", "u", "r", " ", "p", "a", "r", "t", "y">>,
             10, Arial, <<72, 500, 300, 510>>, 0)

PosterLeft ==
    Fragment(<<"G", "A", "R", "D", "E", "N">>,
             24, ArialBold, <<100, 300, 220, 324>>, 0)

PosterRight ==
    Fragment(<<"T", "O", "N", "I", "G", "H", "T", "!">>,
             24, ArialBold, <<230, 300, 400, 324>>, 0)

PosterDocument == <<PartyLine, PosterLeft, PosterRight>>

\* a line whose spans are reported with size 0
ZeroSized ==
    Fragment(<<"p", "l", "a", "i", "n", " ", "b", "o", "d", "y", " ", "t", "e", "x", "t">>,
             0, Arial, <<72, 500, 300, 500>>, 0)

ZeroSizedDocument == <<ZeroSized>>

\* a one-page document with a title of two centered lines
TitleLineOne ==
    Fragment(<<"H", "a", "r", "b", "o", "u", "r", " ", "L", "i", "g", "h", "t", "s">>,
             24, Arial, <<200, 100, 400, 124>>, 0)

TitleLineTwo ==
    Fragment(<<"W", "i", "n", "t", "e", "r", " ", "E", "d", "i", "t", "i", "o", "n">>,
             24, Arial, <<210, 140, 390, 164>>, 0)

TitlePageDocument == <<TitleLineOne, TitleLineTwo, BodyText>>

\* title lines of multi-page documents with repeated words
ShortWordTitle ==
    Fragment(<<"T", "h", "e", "o", "r", "y", " ", "o", "r", " ", "P", "r", "a", "c", "t", "i", "c", "e">>,
             20, Arial, <<200, 100, 400, 120>>, 0)

OverlaidTitle ==
    Fragment(<<"N", "e", "t", "w", "o", "r", "k", "i", "n", "g", " ", "N", "e", "t", "w", "o", "r", "k", " ", "N", "e", "t", "w", "o", "r", "k", "i", "n", "g">>,
             20, Arial, <<200, 100, 400, 120>>, 0)

DoubledTitle ==
    Fragment(<<"A", "n", "n", "u", "a", "l", " ", "A", "n", "n", "u", "a", "l", " ", "R", "e", "p", "o", "r", "t">>,
             20, Arial, <<200, 100, 400, 120>>, 0)

ShortWordDocument == <<ShortWordTitle, BoldHeading>>

OverlaidDocument == <<OverlaidTitle, BoldHeading>>

DoubledDocument == <<DoubledTitle, BoldHeading>>

\* a document whose first page has a title and a heading, and whose second
\* page repeats the title above a heading
AlmanacTitle ==
    Fragment(<<"A", "l", "m", "a", "n", "a", "c">>,
             24, ArialBold, <<200, 100, 400, 124>>, 0)

ContentsHeading ==
    Fragment(<<"C", "o", "n", "t", "e", "n", "t", "s">>,
             16, ArialBold, <<72, 300, 160, 316>>, 0)

RunningTitle ==
    Fragment(<<"A", "l", "m", "a", "n", "a", "c">>,
             24, ArialBold, <<200, 50, 400, 74>>, 1)

AlmanacDocument == <<AlmanacTitle, ContentsHeading, BodyText, RunningTitle, LateHeading>>

NumberedDocument == <<BodyText, TwoLevel, ThreeLevel>>

CjkDocument == <<BodyText, CjkHeading>>

FilteredDocument == <<BodyText, VersionLine, YearLine, LateHeading>>

OcrDocument == <<BodyText, OcrHeading>>

WeightDocument == <<BodyText, BoldMTHeading, BlackHeading>>

SectionText == <<"S", "e", "c", "t", "i", "o", "n", " ", "h", "e", "a", "d", "i", "n", "g">>

\* a line of more than 10 characters in a given size on a given page
Sized(size, page) == Fragment(SectionText, size, Arial, <<72, 200, 300, 200 + size>>, page)

\* the sizes of the lines the baseline and the tiers are computed from: 13
\* is 30% above 10, 20 is twice 10, 26 is 30% above 20
SizedSizes == {10, 13, 20, 26}

SizedCatalogue == {Sized(s, p) : s \in SizedSizes, p \in {0, 1}}

\* five and six sizes that qualify as tiers
FiveTiers == <<Sized(10, 0), Sized(19, 1), Sized(18, 1), Sized(17, 1), Sized(16, 1), Sized(15, 1)>>

SixTiers == <<Sized(10, 0), Sized(30, 1), Sized(19, 1), Sized(18, 1), Sized(17, 1), Sized(16, 1),
              Sized(15, 1)>>

\* a short bold heading of 16.5 points: too short to be body text, so its
\* size is no tier, and round(16.5) is 16
HalfPointHeading ==
    [Fragment(<<"O", "v", "e", "r", "v", "i", "e", "w">>,
              16, ArialBold, <<72, 300, 160, 316>>, 1) EXCEPT !.size = Pt(16) + 1]

GlossaryHeading ==
    Fragment(<<"G", "l", "o", "s", "s", "a", "r", "y">>,
             20, ArialBold, <<72, 400, 160, 420>>, 1)

\* one tier (16 points), a heading half a point above it and a larger
\* heading that is no tier
HalfPointDocument == <<BodyText, Sized(16, 1), HalfPointHeading, GlossaryHeading>>

FeatureDocuments ==
    {NumberedDocument, FilteredDocument, OcrDocument, CjkDocument, WeightDocument,
     PosterDocument, ZeroSizedDocument, TitlePageDocument, ShortWordDocument,
     OverlaidDocument, DoubledDocument, AlmanacDocument, HalfPointDocument,
     FiveTiers, SixTiers}

ChapterExample == <<ChapterOne20, Introduction14>>

FlyerExample == <<FlyerHope, FlyerTo, FlyerSee, FlyerYou, FlyerThere>>

ExampleDocuments == {ChapterExample, FlyerExample, <<OverviewCentered>>, <<OverviewLeft>>}

AllFragments ==
    GeneralCatalogue \cup SizedCatalogue
        \cup UNION {SeqToSet(e) : e \in ExampleDocuments \cup FeatureDocuments}

\* the widths set_page_width is called with
PageWidths == {Pt(600)}

\* the longest document built from GeneralCatalogue
MaxBlocks == 3

\* the longest document built from SizedCatalogue
MaxSized == 3

\* how often analyze_document is called on one analyzer
MaxRuns == 2

\* how many documents one process analyzes
MaxDocs == 2

\* extract_text_blocks_from_pdf enumerates the pages in order: the page
\* numbers of the blocks never decrease
PageOrdered(doc) == \A i \in 1..(Len(doc) - 1) : doc[i].page <= doc[i + 1].page

IsPrefix(p, doc) == Len(p) <= Len(doc) /\ SubSeq(doc, 1, Len(p)) = p

\* the documents the model feeds to an analyzer
Admissible(doc) ==
    \/ /\ Len(doc) <= MaxBlocks
       /\ \A i \in 1..Len(doc) : doc[i] \in GeneralCatalogue
       /\ PageOrdered(doc)
    \/ /\ Len(doc) <= MaxSized
       /\ \A i \in 1..Len(doc) : doc[i] \in SizedCatalogue
       /\ PageOrdered(doc)
    \/ \E e \in ExampleDocuments \cup FeatureDocuments : IsPrefix(doc, e)

(***************************************************************************)
(* analyze_document as one function, for comparing a run with the run of   *)
(* a fresh analyzer                                                        *)
(***************************************************************************)
NoResult == [returned |-> FALSE, title |-> << >>, outline |-> << >>]

\* the (title, outline) pair _pass3 returns, without the bookkeeping of
\* which blocks an entry came from
Returned(out) ==
    [returned |-> TRUE,
     title |-> out.title,
     outline |-> [k \in 1..Len(out.outline) |-> out.outline[k].entry]]

analyze_document(an, learner) ==
    LET learned == _learn_document_patterns(an, learner)
        scored == _pass1(learned.an)
    IN  IF _pass2_raises(scored)
        THEN NoResult
        ELSE Returned(_pass3(_pass2(scored)))

\* a DocumentAnalyzer built as process_single_pdf builds it
FreshAnalyzer(doc, width) ==
    [NewAnalyzer EXCEPT
        !.page_width = width,
        !.text_blocks = [i \in 1..Len(doc) |->
            TextBlock(doc[i].text, doc[i].size, doc[i].font, doc[i].bbox,
                      doc[i].page, doc[i].italic)]]

\* extract_text_blocks_from_pdf before it is called: blocks = [],
\* page_width = 0.0
NoExtraction ==
    [status |-> "idle", source |-> << >>, width |-> 0, blocks |-> << >>,
     page_width |-> 0, failed |-> FALSE]

\* no batch started
NoPool ==
    [status |-> "idle", variant |-> "none", files |-> << >>, width |-> 0,
     chunks |-> << >>, taken |-> 0, workers |-> << >>, failed |-> {},
     analyzed |-> {}, results |-> << >>, written |-> {}]

(***************************************************************************)
(* utils/analysis.py: the analyzer the new one replaced                    *)
(***************************************************************************)
legacy_bold_indicators ==
    <<<<"b", "o", "l", "d">>, <<"b", "l", "a", "c", "k">>, <<"h", "e", "a", "v", "y">>,
      <<"d", "e", "m", "i">>, <<"s", "e", "m", "i">>>>

\* TextBlock._detect_bold of utils/analysis.py
LegacyDetectBold(font_name) ==
    \E i \in 1..Len(legacy_bold_indicators) :
        Contains(ToLower(font_name), legacy_bold_indicators[i])

\* str.isupper(): a cased character, and no cased character in lower case
IsUpperStr(s) ==
    /\ \E i \in 1..Len(s) : IsUpperChar(s[i])
    /\ ~(\E i \in 1..Len(s) : IsLowerChar(s[i]))

\* TextBlock.__init__ of utils/analysis.py
LegacyTextBlock(text, font_size, font_name, bbox, page_num, is_italic) ==
    [text          |-> Strip(text),
     font_size     |-> font_size,
     font_name     |-> font_name,
     bbox          |-> bbox,
     page_num      |-> page_num,
     is_italic     |-> is_italic,
     x_position    |-> bbox[1],
     y_position    |-> bbox[2],
     is_bold       |-> LegacyDetectBold(font_name),
     is_all_caps   |-> IsUpperStr(text) /\ Len(text) > 5,
     heading_score |-> 0]

\* DocumentAnalyzer.__init__ of utils/analysis.py
NewLegacyAnalyzer ==
    [text_blocks |-> << >>, body_font_size |-> 0, body_font_name |-> << >>,
     unique_font_sizes |-> << >>]

\* add_text_block: a block without text is dropped
add_text_block(an, text_block) ==
    IF Len(text_block.text) > 0
    THEN [an EXCEPT !.text_blocks = Append(@, text_block)]
    ELSE an

\* global_analysis_pass
global_analysis_pass(an) ==
    IF Len(an.text_blocks) = 0 THEN an
    ELSE LET blocks == an.text_blocks
             Long(i) == Len(blocks[i].text) > 20
             long == SelectSeq([i \in 1..Len(blocks) |-> i], Long)
             font_styles == [k \in 1..Len(long) |->
                                <<blocks[long[k]].font_size, blocks[long[k]].font_name>>]
             sizes == SortedDesc({blocks[i].font_size : i \in 1..Len(blocks)})
         IN  IF Len(font_styles) > 0
             THEN [an EXCEPT !.body_font_size = MostCommon(font_styles)[1],
                             !.body_font_name = MostCommon(font_styles)[2],
                             !.unique_font_sizes = sizes]
             ELSE [an EXCEPT !.unique_font_sizes = sizes]

\* the words Chapter and Section of the numbering patterns, matched without
\* regard to case
ChapterWord == <<"c", "h", "a", "p", "t", "e", "r">>

SectionWord == <<"s", "e", "c", "t", "i", "o", "n">>

\* ^word\s+ at the start of head, without regard to case: the index after
\* the whitespace, 0 when there is no match
WordThenSpace(head, word) ==
    IF StartsWith(ToLower(head), word) /\ CharAt(head, Len(word) + 1) \in Whitespace
    THEN SkipWs(head, Len(word) + 1)
    ELSE 0

\* _matches_numbering_pattern: the seven patterns of numbering_patterns
\* matched at the start of the first 20 characters of the stripped text
_matches_numbering_pattern(text) ==
    LET head == Take(Strip(text), 20)
        dot == NumDotEnd(head, 1)
        second == IF dot > 0 THEN NumDotEnd(head, dot) ELSE 0
        chapter == WordThenSpace(head, ChapterWord)
        section == WordThenSpace(head, SectionWord)
        roman == SkipClass(head, 1, {"I", "V", "X"})
    IN  \/ dot > 0 /\ CharAt(head, dot) \in Whitespace
        \/ dot > 0 /\ IsDigit(CharAt(head, dot))
        \/ second > 0 /\ IsDigit(CharAt(head, second))
        \/ chapter > 0 /\ IsDigit(CharAt(head, chapter))
        \/ section > 0 /\ CharAt(head, section) \in AsciiLetters
        \/ CharAt(head, 1) \in UpperLetters /\ CharAt(head, 2) = "."
        \/ roman > 1 /\ CharAt(head, roman) = "."

\* _has_extra_space_above
_has_extra_space_above(an, current_block, prev_block) ==
    IF current_block.page_num # prev_block.page_num THEN TRUE
    ELSE LET vertical_gap == current_block.y_position - prev_block.bbox[4]
         IN  IF an.body_font_size > 0
             THEN vertical_gap * 10 > an.body_font_size * 12
             ELSE vertical_gap > Pt(12)

\* classification_pass, lines 90-118: the score of block i; sizes count half
\* points, so a difference of sizes is twice the difference in points
ClassificationScore(an, i) ==
    LET block == an.text_blocks[i]
    IN  (IF an.body_font_size > 0 /\ block.font_size > an.body_font_size
         THEN block.font_size - an.body_font_size ELSE 0)
        + (IF block.is_bold THEN 10 ELSE 0)
        + (IF block.is_all_caps THEN 8 ELSE 0)
        + (IF _matches_numbering_pattern(block.text) THEN 15 ELSE 0)
        + (IF i > 1 /\ _has_extra_space_above(an, block, an.text_blocks[i - 1]) THEN 5 ELSE 0)

\* classification_pass: is block i a heading candidate
IsLegacyCandidate(an, i) ==
    /\ ~(Len(Strip(an.text_blocks[i].text)) <= 2
         /\ ~_matches_numbering_pattern(an.text_blocks[i].text))
    /\ ClassificationScore(an, i) > 18

\* classification_pass: the analyzer with the scores of the candidates
\* written, and the candidates (as indices from 1) in block order
classification_pass(an) ==
    LET Keep(i) == IsLegacyCandidate(an, i)
    IN  [an |-> [an EXCEPT !.text_blocks =
                    [i \in 1..Len(an.text_blocks) |->
                        IF IsLegacyCandidate(an, i)
                        THEN [an.text_blocks[i] EXCEPT !.heading_score = ClassificationScore(an, i)]
                        ELSE an.text_blocks[i]]],
         heading_candidates |-> SelectSeq([i \in 1..Len(an.text_blocks) |-> i], Keep)]

\* the blocks after title_block that _merge_adjacent_title_lines appends:
\* the loop of lines 252-265 from block i on
RECURSIVE MergedLines(_, _, _)
MergedLines(blocks, t, i) ==
    IF i > Min(t + 2, Len(blocks)) THEN << >>
    ELSE IF blocks[i].page_num # blocks[t].page_num THEN << >>
    ELSE LET font_size_diff == Abs(blocks[i].font_size - blocks[t].font_size)
             vertical_gap == blocks[i].y_position - blocks[i - 1].bbox[4]
             horizontal_diff == Abs(blocks[i].x_position - blocks[t].x_position)
         IN  IF /\ font_size_diff < Pt(1)
                /\ vertical_gap * 10 < blocks[t].font_size * 12
                /\ horizontal_diff < Pt(20)
             THEN <<i>> \o MergedLines(blocks, t, i + 1)
             ELSE << >>

\* str.replace("  ", " "), from index i on
RECURSIVE ReplaceDoubleSpace(_, _)
ReplaceDoubleSpace(s, i) ==
    IF i > Len(s) THEN << >>
    ELSE IF s[i] = " " /\ CharAt(s, i + 1) = " "
    THEN <<" ">> \o ReplaceDoubleSpace(s, i + 2)
    ELSE <<s[i]>> \o ReplaceDoubleSpace(s, i + 1)

\* _merge_adjacent_title_lines: the text of block t, as it is now, and the
\* texts of the lines that follow it in the same style
_merge_adjacent_title_lines(blocks, t) ==
    LET lines == MergedLines(blocks, t, t + 1)
    IN  ReplaceDoubleSpace(
            Join(<<blocks[t].text>> \o [k \in 1..Len(lines) |-> blocks[lines[k]].text], SP), 1)

form_indicators ==
    <<<<"a", "p", "p", "l", "i", "c", "a", "t", "i", "o", "n">>, <<"f", "o", "r", "m">>,
      <<"n", "a", "m", "e", ":">>, <<"d", "a", "t", "e", ":">>,
      <<"d", "e", "s", "i", "g", "n", "a", "t", "i", "o", "n", ":">>,
      <<"s", ".", "n", "o">>>>

title_penalty_keywords ==
    <<<<"p", "a", "g", "e">>, <<"c", "o", "n", "f", "i", "d", "e", "n", "t", "i", "a", "l">>,
      <<"d", "a", "t", "e", ":">>>>

\* _find_best_title, lines 211-221: the score of a block of the first page
TitleScore(an, block) ==
    (IF block.y_position < Pt(200) THEN 30 ELSE 0)
    + (IF an.body_font_size > 0 /\ block.font_size > an.body_font_size
       THEN block.font_size - an.body_font_size ELSE 0)
    + (IF block.is_bold THEN 15 ELSE 0)
    - (IF Len(block.text) < 4 THEN 20 ELSE 0)
    - (IF Len(block.text) > 150 THEN 10 ELSE 0)
    - (IF \E k \in 1..Len(title_penalty_keywords) :
              Contains(ToLower(block.text), title_penalty_keywords[k])
       THEN 50 ELSE 0)

\* lines 235-238: the repeated first word of a logo or header is dropped
DropTripledWord(merged_title_text) ==
    LET words == Split(merged_title_text)
    IN  IF Len(words) > 2 /\ words[1] = words[2] /\ words[1] = words[3]
        THEN Join(SubSeq(words, 3, Len(words)), SP)
        ELSE merged_title_text

\* _find_best_title: the pair it returns (the title block as an index from
\* 1, 0 for None) and the analyzer with the text it assigned to that block
_find_best_title(an) ==
    LET blocks == an.text_blocks
        First(i) == blocks[i].page_num = 0 /\ Len(Strip(blocks[i].text)) > 1
        first_page_blocks == SelectSeq([i \in 1..Len(blocks) |-> i], First)
        first_page_text ==
            Join([k \in 1..Len(first_page_blocks) |-> ToLower(blocks[first_page_blocks[k]].text)], SP)
        is_form == Cardinality({k \in 1..Len(form_indicators) :
                                    Contains(first_page_text, form_indicators[k])}) >= 2
        Scored(i) == TitleScore(an, blocks[i]) > 5
        title_candidates == SelectSeq(first_page_blocks, Scored)
    IN  IF Len(first_page_blocks) = 0
        THEN [an |-> an, title_block |-> 0, is_form |-> FALSE]
        ELSE IF Len(title_candidates) = 0
        THEN [an |-> an, title_block |-> 0, is_form |-> is_form]
        ELSE LET best_candidate ==
                     CHOOSE i \in SeqToSet(title_candidates) :
                         \A j \in SeqToSet(title_candidates) :
                             \/ TitleScore(an, blocks[j]) < TitleScore(an, blocks[i])
                             \/ TitleScore(an, blocks[j]) = TitleScore(an, blocks[i]) /\ i <= j
             IN  [an |-> IF is_form THEN an
                         ELSE [an EXCEPT !.text_blocks[best_candidate].text =
                                  DropTripledWord(_merge_adjacent_title_lines(blocks, best_candidate))],
                  title_block |-> best_candidate,
                  is_form |-> is_form]

\* str.count('.') of the first word of the stripped text
FirstWordDots(text) == CountChar(Split(Strip(text))[1], ".")

\* assign_hierarchy, lines 152-196: the outline of the candidates. The value
\* _find_best_title returned is a pair, so `h != title_block` holds of every
\* candidate and none is removed
LegacyOutline(an, heading_candidates) ==
    LET blocks == an.text_blocks
        Before(a, b) == \/ blocks[a].page_num < blocks[b].page_num
                        \/ /\ blocks[a].page_num = blocks[b].page_num
                           /\ blocks[a].y_position < blocks[b].y_position
        sorted == StableSort(heading_candidates,
                             [a \in SeqToSet(heading_candidates), b \in SeqToSet(heading_candidates) |->
                                 Before(a, b)])
        ClusterKey(i) == <<Round(blocks[i].font_size), blocks[i].is_bold>>
        FirstOfKey(k) == \A j \in 1..(k - 1) : ClusterKey(sorted[j]) # ClusterKey(sorted[k])
        keys == [k \in 1..Len(SelectSeq([k \in 1..Len(sorted) |-> k], FirstOfKey)) |->
                    ClusterKey(sorted[SelectSeq([n \in 1..Len(sorted) |-> n], FirstOfKey)[k]])]
        sorted_clusters == StableSort(keys, [a \in SeqToSet(keys), b \in SeqToSet(keys) |-> a[1] > b[1]])
        Level(i) ==
            LET rank == IndexOf(sorted_clusters, ClusterKey(i))
                level == LevelName(Min(rank, 2) + 1)
            IN  IF ~_matches_numbering_pattern(blocks[i].text) THEN level
                ELSE IF FirstWordDots(blocks[i].text) = 1 THEN "H2"
                ELSE IF FirstWordDots(blocks[i].text) >= 2 THEN "H3"
                ELSE level
        Kept(i) == ~(blocks[i].heading_score < 25 /\ ~_matches_numbering_pattern(blocks[i].text))
        kept == SelectSeq(sorted, Kept)
    IN  [k \in 1..Len(kept) |->
            [level |-> Level(kept[k]), text |-> blocks[kept[k]].text, page |-> blocks[kept[k]].page_num]]

\* assign_hierarchy: it calls _find_best_title itself (line 145), and a form
\* gets an empty outline
assign_hierarchy(an, heading_candidates, is_form) ==
    LET found == _find_best_title(an)
    IN  [an |-> found.an,
         outline |-> IF is_form \/ Len(heading_candidates) = 0 THEN << >>
                     ELSE LegacyOutline(found.an, heading_candidates)]

\* the state of a call of analyze_document of utils/analysis.py before the
\* first block is added
NewLegacy ==
    [an |-> NewLegacyAnalyzer, added |-> << >>, pc |-> "ingest",
     heading_candidates |-> << >>, title_block |-> 0, is_form |-> FALSE,
     title |-> << >>, outline |-> << >>]

(***************************************************************************)
(* State                                                                   *)
(***************************************************************************)
VARIABLES
    analyzer,        \* the DocumentAnalyzer of the document at hand
    pattern_learner, \* the module-level _pattern_learner
    raw,             \* the fragments handed to the analyzer so far
    pc,              \* where analyze_document stands
    result,          \* what analyze_document returned
    sources,         \* for each outline entry, the blocks it was built from
    exception,       \* the exception analyze_document raised
    runs,            \* calls of analyze_document on this analyzer that returned
    first_result,    \* what the first of them returned
    docs_done,       \* documents this process analyzed before this one
    extractor,       \* where extract_text_blocks_from_pdf stands on the file at hand
    pool,            \* the worker pool of run_batch_processing / process_all_pdfs
    steps,           \* what the current call of analyze_document did so far, in order
    legacy           \* the DocumentAnalyzer of utils/analysis.py and its analyze_document

vars == <<analyzer, pattern_learner, raw, pc, result, sources, exception, runs,
          first_result, docs_done, extractor, pool, steps, legacy>>

Init ==
    /\ analyzer = NewAnalyzer
    /\ pattern_learner = NewPatternLearner
    /\ raw = << >>
    /\ pc = "ingest"
    /\ result = NoResult
    /\ sources = << >>
    /\ exception = "none"
    /\ runs = 0
    /\ first_result = NoResult
    /\ docs_done = 0
    /\ extractor = NoExtraction
    /\ pool = NoPool
    /\ steps = << >>
    /\ legacy = NewLegacy

\* DocumentAnalyzer.set_page_width, called as process_single_pdf calls it:
\* before the first block is added
SetPageWidth(width) ==
    /\ pc = "ingest"
    /\ Len(raw) = 0
    /\ analyzer.page_width = 0
    /\ analyzer' = [analyzer EXCEPT !.page_width = width]
    /\ UNCHANGED <<pattern_learner, raw, pc, result, sources, exception, runs,
                   first_result, docs_done, extractor, pool, steps, legacy>>

\* TextBlock(...) and DocumentAnalyzer.add_text_block, called as
\* process_single_pdf calls it: after set_page_width
AddTextBlock(f) ==
    /\ pc = "ingest"
    /\ analyzer.page_width \in PageWidths
    /\ Admissible(Append(raw, f))
    /\ raw' = Append(raw, f)
    /\ analyzer' = [analyzer EXCEPT !.text_blocks =
                       Append(@, TextBlock(f.text, f.size, f.font, f.bbox, f.page, f.italic))]
    /\ UNCHANGED <<pattern_learner, pc, result, sources, exception, runs,
                   first_result, docs_done, extractor, pool, steps, legacy>>

\* analyze_document, line 337: _learn_document_patterns has
\* detect_content_indicators look through the texts of the blocks for the
\* academic, social and form indicators (line 351)
StartAnalysis ==
    /\ \E learned \in {_learn_document_patterns(analyzer, pattern_learner)} :
          /\ analyzer' = learned.an
          /\ pattern_learner' = learned.learner
    /\ pc' = "learned"
    /\ steps' = <<"detect_content_indicators">>
    /\ UNCHANGED <<raw, result, sources, exception, runs, first_result, docs_done, extractor,
                   pool, legacy>>

\* the first call of analyze_document on an analyzer
LearnDocumentPatterns ==
    /\ pc = "ingest"
    /\ StartAnalysis

\* a further call of analyze_document on the same analyzer and the same
\* TextBlock objects: it starts from what the call before left in them
AnalyzeAgain ==
    /\ pc = "done"
    /\ runs < MaxRuns
    /\ StartAnalysis

\* analyze_document, line 338
Pass1 ==
    /\ pc = "learned"
    /\ analyzer' = _pass1(analyzer)
    /\ pc' = "pass1"
    /\ UNCHANGED <<pattern_learner, raw, result, sources, exception, runs,
                   first_result, docs_done, extractor, pool, steps, legacy>>

\* analyze_document, line 339: _pass2 writes the heading_score of every
\* block (line 469)
Pass2 ==
    /\ pc = "pass1"
    /\ IF _pass2_raises(analyzer)
       THEN /\ pc' = "raised"
            /\ exception' = _pass2_exception(analyzer)
            /\ UNCHANGED <<analyzer, steps>>
       ELSE /\ pc' = "pass2"
            /\ analyzer' = _pass2(analyzer)
            /\ steps' = Append(steps, "heading_score_written")
            /\ UNCHANGED exception
    /\ UNCHANGED <<pattern_learner, raw, result, sources, runs, first_result, docs_done,
                   extractor, pool, legacy>>

\* what _pass3 does with the scores and the indicators: it reads the
\* heading_score of every block (lines 476-506) and, in a document of one
\* page, chooses the strategy from the indicators (lines 608-622)
Pass3Steps(blocks) ==
    (IF Len(blocks) > 0 THEN <<"heading_score_read">> ELSE << >>)
        \o (IF TotalPages(blocks) = 1 THEN <<"is_poster">> ELSE << >>)

\* analyze_document, line 340
Pass3 ==
    /\ pc = "pass2"
    /\ steps' = steps \o Pass3Steps(analyzer.text_blocks)
    /\ \E out \in {_pass3(analyzer)} :
          /\ result' = Returned(out)
          /\ sources' = [k \in 1..Len(out.outline) |-> out.outline[k].source]
          /\ first_result' = IF runs = 0 THEN Returned(out) ELSE first_result
    /\ runs' = runs + 1
    /\ pc' = "done"
    /\ UNCHANGED <<analyzer, pattern_learner, raw, exception, docs_done, extractor, pool, legacy>>

\* process_single_pdf called for the next file of the batch: a new
\* DocumentAnalyzer, the same module-level _pattern_learner
NewDocument ==
    /\ pc \in {"done", "raised"}
    /\ docs_done + 1 < MaxDocs
    /\ docs_done' = docs_done + 1
    /\ analyzer' = NewAnalyzer
    /\ raw' = << >>
    /\ pc' = "ingest"
    /\ result' = NoResult
    /\ sources' = << >>
    /\ exception' = "none"
    /\ runs' = 0
    /\ first_result' = NoResult
    /\ steps' = << >>
    /\ UNCHANGED <<pattern_learner, extractor, pool, legacy>>

\* one document, analyzed once or several times
Next ==
    \/ \E w \in PageWidths : SetPageWidth(w)
    \/ \E f \in AllFragments : AddTextBlock(f)
    \/ LearnDocumentPatterns
    \/ Pass1
    \/ Pass2
    \/ Pass3
    \/ AnalyzeAgain

Spec == Init /\ [][Next]_vars

\* a batch of documents, each analyzed once by its own analyzer
NextBatch ==
    \/ \E w \in PageWidths : SetPageWidth(w)
    \/ \E f \in AllFragments : AddTextBlock(f)
    \/ LearnDocumentPatterns
    \/ Pass1
    \/ Pass2
    \/ Pass3
    \/ NewDocument

SpecBatch == Init /\ [][NextBatch]_vars

(***************************************************************************)
(* process_single_pdf of extract_outline.py on one file: the extraction    *)
(* and the hand-over to the analyzer                                       *)
(***************************************************************************)
\* the files: for each, the merged lines a complete read of it yields
PdfFiles == ExampleDocuments \cup FeatureDocuments \cup {<< >>}

AnalysisVars == <<analyzer, pattern_learner, raw, pc, result, sources, exception, runs,
                  first_result, docs_done, steps>>

\* extract_text_blocks_from_pdf, lines 21-24: fitz.open returned
OpenPdf(doc, width) ==
    /\ extractor.status = "idle"
    /\ extractor' = [extractor EXCEPT !.status = "open", !.source = doc, !.width = width]
    /\ UNCHANGED <<AnalysisVars, pool, legacy>>

\* extract_text_blocks_from_pdf, lines 25-27: the first page is entered
FirstPage ==
    /\ extractor.status = "open"
    /\ extractor' = [extractor EXCEPT !.status = "pages", !.page_width = extractor.width]
    /\ UNCHANGED <<AnalysisVars, pool, legacy>>

\* extract_text_blocks_from_pdf, lines 116-124: the next merged line becomes
\* a TextBlock
AppendBlock ==
    /\ extractor.status = "pages"
    /\ Len(extractor.blocks) < Len(extractor.source)
    /\ LET f == extractor.source[Len(extractor.blocks) + 1]
       IN  extractor' = [extractor EXCEPT !.blocks =
               Append(@, TextBlock(f.text, f.size, f.font, f.bbox, f.page, f.italic))]
    /\ UNCHANGED <<AnalysisVars, pool, legacy>>

\* extract_text_blocks_from_pdf, lines 125 and 128: every page was read
CloseDoc ==
    /\ extractor.status = "pages"
    /\ Len(extractor.blocks) = Len(extractor.source)
    /\ extractor' = [extractor EXCEPT !.status = "returned"]
    /\ UNCHANGED <<AnalysisVars, pool, legacy>>

\* extract_text_blocks_from_pdf, lines 126-128: fitz raises while the file
\* is opened or read; the handler prints and the function returns the blocks
\* appended so far
ExtractionFails(doc, width) ==
    /\ \/ /\ extractor.status = "idle"
          /\ extractor' = [extractor EXCEPT !.status = "returned", !.failed = TRUE,
                                            !.source = doc, !.width = width]
       \/ /\ extractor.status \in {"open", "pages"}
          /\ extractor' = [extractor EXCEPT !.status = "returned", !.failed = TRUE]
    /\ UNCHANGED <<AnalysisVars, pool, legacy>>

\* process_single_pdf, lines 133-134
ReturnNone ==
    /\ extractor.status = "returned"
    /\ Len(extractor.blocks) = 0
    /\ extractor' = [extractor EXCEPT !.status = "none"]
    /\ UNCHANGED <<AnalysisVars, pool, legacy>>

\* process_single_pdf, lines 136-139
BuildAnalyzer ==
    /\ extractor.status = "returned"
    /\ Len(extractor.blocks) > 0
    /\ pc = "ingest"
    /\ extractor' = [extractor EXCEPT !.status = "handed"]
    /\ analyzer' = [NewAnalyzer EXCEPT !.page_width = extractor.page_width,
                                       !.text_blocks = extractor.blocks]
    /\ raw' = SubSeq(extractor.source, 1, Len(extractor.blocks))
    /\ UNCHANGED <<pattern_learner, pc, result, sources, exception, runs, first_result,
                   docs_done, pool, steps, legacy>>

\* process_single_pdf, line 141: analyze_document is called
AnalyzeExtracted ==
    /\ extractor.status = "handed"
    /\ LearnDocumentPatterns

NextExtract ==
    \/ \E doc \in PdfFiles, w \in PageWidths : OpenPdf(doc, w)
    \/ FirstPage
    \/ AppendBlock
    \/ CloseDoc
    \/ \E doc \in PdfFiles, w \in PageWidths : ExtractionFails(doc, w)
    \/ ReturnNone
    \/ BuildAnalyzer
    \/ AnalyzeExtracted
    \/ Pass1
    \/ Pass2
    \/ Pass3

SpecExtract == Init /\ [][NextExtract]_vars


(***************************************************************************)
(* run_batch_processing of extract_outline.py and process_all_pdfs of      *)
(* extract_outline_no_ocr.py: the files of a batch mapped over a pool      *)
(***************************************************************************)
OrdinaryDocument == <<BodyText, BoldHeading>>

\* what the files of a batch hold: an ordinary document, a document whose
\* analysis raises, a file without text
BatchDocuments == {OrdinaryDocument, ZeroSizedDocument, << >>}

\* the values of mp.cpu_count()
CpuCounts == {1, 2}

\* the most files a batch has
MaxFiles == 5

Batches == UNION {[1..n -> BatchDocuments] : n \in 1..MaxFiles}

\* analyze_document from _pass2 on, as process_single_pdf sees it: the
\* exception leaves process_single_pdf, the pair becomes the result
ScoreAndBuild(scored, learner) ==
    IF _pass2_raises(scored)
    THEN [outcome |-> "raised", result |-> NoResult, learner |-> learner]
    ELSE [outcome |-> "result", result |-> Returned(_pass3(_pass2(scored))),
          learner |-> learner]

AnalyzeLearned(learned) == ScoreAndBuild(_pass1(learned.an), learned.learner)

\* process_single_pdf on a file that is read completely, in a process whose
\* _pattern_learner is learner
process_single_pdf(doc, width, learner) ==
    IF Len(doc) = 0
    THEN [outcome |-> "none", result |-> NoResult, learner |-> learner]
    ELSE AnalyzeLearned(_learn_document_patterns(FreshAnalyzer(doc, width), learner))

\* process_single_pdf in a process that has analyzed nothing yet, for each
\* file content and page width of the batches
FirstTaskOutcome ==
    [doc \in BatchDocuments, width \in PageWidths |->
        process_single_pdf(doc, width, NewPatternLearner)]

\* what the mapped function does with a file in a worker process
TaskOutcome(doc, width, learner) ==
    IF learner = NewPatternLearner /\ doc \in BatchDocuments /\ width \in PageWidths
    THEN FirstTaskOutcome[doc, width]
    ELSE process_single_pdf(doc, width, learner)

\* run_batch_processing, line 166; mp.Pool() of process_all_pdfs starts
\* cpu_count() processes
num_processes(variant, cpu_count, n) ==
    IF variant = "extract_outline" THEN Min(Min(cpu_count, 8), n) ELSE cpu_count

\* Pool.map without a chunksize: divmod(len(iterable), len(pool) * 4),
\* rounded up
ChunkSize(n, processes) ==
    LET chunksize == n \div (processes * 4)
        extra == n % (processes * 4)
    IN  IF extra # 0 THEN chunksize + 1 ELSE chunksize

\* the tasks Pool.map puts on the queue: consecutive runs of chunksize files
Chunks(n, chunksize) ==
    [k \in 1..((n + chunksize - 1) \div chunksize) |->
        [first |-> (k - 1) * chunksize + 1, last |-> Min(k * chunksize, n)]]

IdleWorker == [chunk |-> 0, next |-> 0, learner |-> NewPatternLearner]

StartPool(variant, files, width, cpu_count) ==
    LET n == Len(files)
        processes == num_processes(variant, cpu_count, n)
    IN  pool' = [status |-> "mapping", variant |-> variant, files |-> files,
                 width |-> width,
                 chunks |-> Chunks(n, ChunkSize(n, processes)), taken |-> 0,
                 workers |-> [w \in 1..processes |-> IdleWorker],
                 failed |-> {}, analyzed |-> {},
                 results |-> [i \in 1..n |-> NoResult], written |-> {}]

\* run_batch_processing, lines 159-168, up to the call of pool.map
RunBatchProcessing(files, width, cpu_count) ==
    /\ pool.status = "idle"
    /\ StartPool("extract_outline", files, width, cpu_count)
    /\ UNCHANGED <<AnalysisVars, extractor, legacy>>

\* process_all_pdfs, lines 156-165, up to the call of pool.map
ProcessAllPdfs(files, width, cpu_count) ==
    /\ pool.status = "idle"
    /\ StartPool("extract_outline_no_ocr", files, width, cpu_count)
    /\ UNCHANGED <<AnalysisVars, extractor, legacy>>

\* a worker process takes the next chunk from the task queue
TakeChunk(w) ==
    /\ pool.status = "mapping"
    /\ pool.workers[w].chunk = 0
    /\ pool.taken < Len(pool.chunks)
    /\ pool' = [pool EXCEPT !.taken = @ + 1,
                            !.workers[w].chunk = pool.taken + 1,
                            !.workers[w].next = pool.chunks[pool.taken + 1].first]
    /\ UNCHANGED <<AnalysisVars, extractor, legacy>>

\* the worker calls the mapped function on the next file of its chunk:
\* process_pdf_worker (lines 152-157) saves the result itself,
\* process_single_pdf of extract_outline_no_ocr.py returns it to the parent.
\* An exception ends the chunk: the files after it in the chunk are not
\* processed
RunTask(w) ==
    /\ pool.status = "mapping"
    /\ pool.workers[w].chunk # 0
    /\ \E i \in {pool.workers[w].next} :
       \E out \in {TaskOutcome(pool.files[i], pool.width, pool.workers[w].learner)} :
          pool' = [pool EXCEPT
              !.workers[w] =
                  [chunk |-> IF out.outcome = "raised" \/ i = pool.chunks[@.chunk].last
                             THEN 0 ELSE @.chunk,
                   next |-> i + 1,
                   learner |-> out.learner],
              !.failed = IF out.outcome = "raised"
                         THEN @ \cup {pool.workers[w].chunk} ELSE @,
              !.analyzed = IF out.outcome = "result" THEN @ \cup {i} ELSE @,
              !.results[i] = out.result,
              !.written = IF out.outcome = "result" /\ pool.variant = "extract_outline"
                          THEN @ \cup {i} ELSE @]
    /\ UNCHANGED <<AnalysisVars, extractor, legacy>>

AllChunksDone ==
    /\ pool.taken = Len(pool.chunks)
    /\ \A w \in 1..Len(pool.workers) : pool.workers[w].chunk = 0

\* pool.map returns the results of all chunks; process_all_pdfs then writes
\* one file per result (lines 167-173)
MapReturns ==
    /\ pool.status = "mapping"
    /\ AllChunksDone
    /\ pool.failed = {}
    /\ pool' = [pool EXCEPT
           !.status = "returned",
           !.written = IF pool.variant = "extract_outline_no_ocr"
                       THEN {i \in 1..Len(pool.files) : pool.results[i].returned}
                       ELSE @]
    /\ UNCHANGED <<AnalysisVars, extractor, legacy>>

\* pool.map re-raises in the parent the exception of a chunk, once all
\* chunks are done: run_batch_processing and process_all_pdfs end with it
MapRaises ==
    /\ pool.status = "mapping"
    /\ AllChunksDone
    /\ pool.failed # {}
    /\ pool' = [pool EXCEPT !.status = "raised"]
    /\ UNCHANGED <<AnalysisVars, extractor, legacy>>

NextPool ==
    \/ \E files \in Batches, width \in PageWidths, c \in CpuCounts :
          RunBatchProcessing(files, width, c)
    \/ \E files \in Batches, width \in PageWidths, c \in CpuCounts :
          ProcessAllPdfs(files, width, c)
    \/ \E w \in 1..Len(pool.workers) : TakeChunk(w)
    \/ \E w \in 1..Len(pool.workers) : RunTask(w)
    \/ MapReturns
    \/ MapRaises

SpecPool == Init /\ [][NextPool]_vars

(***************************************************************************)
(* analyze_document of utils/analysis.py on one document                   *)
(***************************************************************************)
\* a line of body text of more than 20 characters
LongBodyLine ==
    Fragment(<<"a", " ", "l", "o", "n", "g", " ", "l", "i", "n", "e", " ", "o", "f", " ",
               "p", "l", "a", "i", "n", " ", "b", "o", "d", "y", " ", "t", "e", "x", "t">>,
             10, Arial, <<72, 520, 300, 530>>, 0)

\* the lines of the documents: two title lines in one style, body text, a
\* line with two form indicators, a numbered and a bold heading of page 1
LegacyCatalogue ==
    {TitleLineOne, TitleLineTwo, LongBodyLine, FormLine, LongNumbered, BoldHeading}

\* the longest document built from LegacyCatalogue
MaxLegacyBlocks == 3

\* TextBlock(...) and add_text_block, in the order of the pages
LegacyAddTextBlock(f) ==
    /\ legacy.pc = "ingest"
    /\ Len(legacy.added) < MaxLegacyBlocks
    /\ \A i \in 1..Len(legacy.added) : legacy.added[i].page_num <= f.page
    /\ \E an \in {add_text_block(legacy.an,
                                 LegacyTextBlock(f.text, f.size, f.font, f.bbox, f.page, f.italic))} :
          legacy' = [legacy EXCEPT !.an = an, !.added = an.text_blocks]
    /\ UNCHANGED <<AnalysisVars, extractor, pool>>

\* analyze_document, line 271
GlobalAnalysisPass ==
    /\ legacy.pc = "ingest"
    /\ legacy' = [legacy EXCEPT !.an = global_analysis_pass(@), !.pc = "global"]
    /\ UNCHANGED <<AnalysisVars, extractor, pool>>

\* analyze_document, line 272
ClassificationPass ==
    /\ legacy.pc = "global"
    /\ \E classified \in {classification_pass(legacy.an)} :
          legacy' = [legacy EXCEPT !.an = classified.an,
                                   !.heading_candidates = classified.heading_candidates,
                                   !.pc = "classified"]
    /\ UNCHANGED <<AnalysisVars, extractor, pool>>

\* analyze_document, line 274
FindBestTitle ==
    /\ legacy.pc = "classified"
    /\ \E found \in {_find_best_title(legacy.an)} :
          legacy' = [legacy EXCEPT !.an = found.an,
                                   !.title_block = found.title_block,
                                   !.is_form = found.is_form,
                                   !.pc = "titled"]
    /\ UNCHANGED <<AnalysisVars, extractor, pool>>

\* analyze_document, lines 276-280: assign_hierarchy, then the text of the
\* title block as it is now
AssignHierarchy ==
    /\ legacy.pc = "titled"
    /\ \E assigned \in {assign_hierarchy(legacy.an, legacy.heading_candidates, legacy.is_form)} :
          legacy' = [legacy EXCEPT !.an = assigned.an,
                                   !.outline = assigned.outline,
                                   !.title = IF legacy.title_block # 0
                                             THEN assigned.an.text_blocks[legacy.title_block].text
                                             ELSE << >>,
                                   !.pc = "done"]
    /\ UNCHANGED <<AnalysisVars, extractor, pool>>

NextLegacy ==
    \/ \E f \in LegacyCatalogue : LegacyAddTextBlock(f)
    \/ GlobalAnalysisPass
    \/ ClassificationPass
    \/ FindBestTitle
    \/ AssignHierarchy

SpecLegacy == Init /\ [][NextLegacy]_vars

(***************************************************************************)
(* Properties                                                              *)
(***************************************************************************)
Finished == pc = "done"

\* the y_position of the first block outline entry k was built from
EntryY(k) == analyzer.text_blocks[sources[k][1]].y_position

\* what a fresh DocumentAnalyzer and a fresh learner return for the
\* fragments handed to this analyzer
FreshResult == analyze_document(FreshAnalyzer(raw, analyzer.page_width), NewPatternLearner)

\* text[:n] matches ^\d+\. and not ^\d+\.\d+
SingleLevelNumbered(text) ==
    /\ PatternMatches("num.", text)
    /\ LET dot == NumDotEnd(text, 1)
       IN  ~(dot <= Len(text) /\ IsDigit(text[dot]))

FullText == ToLower(Join([i \in 1..Len(raw) |-> raw[i].text], SP))

FormIndicatorsIn(text) ==
    {p \in {<<"n", "a", "m", "e", ":">>, <<"d", "a", "t", "e", ":">>, <<"a", "p", "p", "l", "i", "c", "a", "t", "i", "o", "n", " ", "f", "o", "r", "m">>} : Contains(text, p)}

\* C1: the outline entries are in non-decreasing order of (page,
\* y_position of the fragment the entry was built from)
OutlineSortedByPageAndY ==
    Finished =>
        \A k \in 1..(Len(result.outline) - 1) :
            \/ result.outline[k].page < result.outline[k + 1].page
            \/ /\ result.outline[k].page = result.outline[k + 1].page
               /\ EntryY(k) <= EntryY(k + 1)

\* C2: analyze_document on a document with zero fragments returns
\* ("", []) and raises no error
ZeroFragmentsReturnEmpty ==
    (Len(analyzer.text_blocks) = 0 /\ pc \in {"done", "raised"}) =>
        /\ pc = "done"
        /\ result.title = << >>
        /\ result.outline = << >>

\* C3: a second call of analyze_document on the same analyzer returns what
\* the first call returned, and both return what a fresh analyzer returns
\* for the same fragments
RepeatedAnalysisSameResult ==
    Finished => (result = first_result /\ result = FreshResult)

RepeatedAnalysisHappened ==
    /\ Finished
    /\ runs = 2
    /\ Len(result.outline) > 0
    /\ result.title # << >>

\* C4: in a document of several pages every outline entry whose text
\* starts with "<n>." (single level) has level H1
NumberedCandidatesAreH1 ==
    (Finished /\ TotalPages(analyzer.text_blocks) > 1) =>
        \A k \in 1..Len(result.outline) :
            SingleLevelNumbered(result.outline[k].text) => result.outline[k].level = "H1"

\* C5: a document whose text contains at least two of "name:", "date:",
\* "application form" gets an empty outline, and a non-empty title when
\* page 0 has a fragment to take it from
FormHasTitleAndNoOutline ==
    (Finished /\ Cardinality(FormIndicatorsIn(FullText)) >= 2) =>
        /\ Len(result.outline) = 0
        /\ (\E i \in 1..Len(raw) : raw[i].page = 0) => result.title # << >>

\* C6: every result is a title string and an outline list whose entries
\* have exactly the fields level, text and page, with level one of H1..H6
ResultShape ==
    Finished =>
        /\ result.returned
        /\ result.title \in Seq(STRING)
        /\ DOMAIN result.outline = 1..Len(result.outline)
        /\ \A k \in 1..Len(result.outline) :
              /\ DOMAIN result.outline[k] = {"level", "text", "page"}
              /\ result.outline[k].level \in {"H1", "H2", "H3", "H4", "H5", "H6"}
              /\ result.outline[k].text \in Seq(STRING)
              /\ result.outline[k].page \in Nat

DefaultLevelEmitted ==
    /\ Finished
    /\ \E k \in 1..Len(result.outline) :
          /\ result.outline[k].level = "H4"
          /\ analyzer.text_blocks[sources[k][1]].numbering_pattern = "A."
    /\ \E k \in 1..Len(result.outline) : result.outline[k].level = "H1"

\* C7: "Chapter One" (20, bold, page 0) followed by "1. Introduction"
\* (14, bold, page 1) gives the title "Chapter One" and the outline
\* [(H1, "1. Introduction", 1)]
ChapterExampleResult ==
    (Finished /\ raw = ChapterExample) =>
        /\ result.title = ChapterOne20.text
        /\ Len(result.outline) = 1
        /\ result.outline[1].level = "H1"
        /\ Strip(result.outline[1].text) = Introduction14.text
        /\ result.outline[1].page = 1

\* C8: the one-page flyer HOPE / To / SEE / You / THERE! gives the title
\* "" and the single merged entry (H1, "HOPE To SEE You THERE!", 0)
FlyerExampleResult ==
    (Finished /\ raw = FlyerExample) =>
        /\ result.title = << >>
        /\ Len(result.outline) = 1
        /\ result.outline[1].level = "H1"
        /\ Strip(result.outline[1].text) = <<"H", "O", "P", "E", " ", "T", "o", " ", "S", "E", "E", " ", "Y", "o", "u", " ", "T", "H", "E", "R", "E", "!">>
        /\ result.outline[1].page = 0

\* C9: the single fragment "Overview" (28, bold, page 0) gives the title
\* "Overview" and an empty outline
OverviewExampleResult ==
    (pc \in {"done", "raised"} /\ raw \in {<<OverviewCentered>>, <<OverviewLeft>>}) =>
        /\ pc = "done"
        /\ result.title = OverviewLeft.text
        /\ result.outline = << >>

OverviewAnalyzed ==
    /\ Finished
    /\ raw = <<OverviewLeft>>
    /\ analyzer.page_width \in PageWidths
    /\ ~analyzer.text_blocks[1].is_centered
    /\ result.title = OverviewLeft.text

\* C10: what a fresh DocumentAnalyzer returns does not depend on the
\* documents analyzed before it in the same process, and the module-level
\* learner holds nothing of them
NoCrossDocumentState ==
    /\ pattern_learner = NewPatternLearner
    /\ Finished => result = FreshResult

SecondDocumentAnalyzed ==
    /\ Finished
    /\ docs_done = 1
    /\ \E k \in 1..Len(result.outline) :
          analyzer.text_blocks[sources[k][1]].numbering_pattern = "None"


\* the blocks carry what _learn_document_patterns gave them
Learned == pc \in {"learned", "pass1", "pass2", "done"}

\* text[:25].strip() starts with <n>.<n>. and not with <n>.<n>.<n>.
TwoLevelHead(text) ==
    /\ PatternMatches("num.num.", Strip(Take(text, 25)))
    /\ ~PatternMatches("num.num.num.", Strip(Take(text, 25)))

\* text[:25].strip() starts with <n>.<n>.<n>.
ThreeLevelHead(text) == PatternMatches("num.num.num.", Strip(Take(text, 25)))

\* C13: a fragment whose head is a two-level number has numbering_pattern
\* "x.y." and one whose head is a three-level number has "x.y.z.", and the
\* outline entries built from them are H2 and H3
HierarchicalNumbersOwnTag ==
    /\ Learned =>
          \A i \in 1..Len(analyzer.text_blocks) :
              /\ TwoLevelHead(analyzer.text_blocks[i].text) =>
                    analyzer.text_blocks[i].numbering_pattern = "x.y."
              /\ ThreeLevelHead(analyzer.text_blocks[i].text) =>
                    analyzer.text_blocks[i].numbering_pattern = "x.y.z."
    /\ (Finished /\ TotalPages(analyzer.text_blocks) > 1) =>
          \A k \in 1..Len(result.outline) :
              /\ TwoLevelHead(analyzer.text_blocks[sources[k][1]].text) =>
                    result.outline[k].level = "H2"
              /\ ThreeLevelHead(analyzer.text_blocks[sources[k][1]].text) =>
                    result.outline[k].level = "H3"

\* the numbering_pattern the fragment raw[i] gets in a document that holds
\* nothing else
PatternWhenAlone(i) ==
    _learn_document_patterns(FreshAnalyzer(<<raw[i]>>, analyzer.page_width),
                             NewPatternLearner).an.text_blocks[1].numbering_pattern

\* C14: the numbering_pattern of a fragment is the one it gets from its own
\* text, whatever other fragments the document holds
NumberingFromOwnTextOnly ==
    Learned =>
        \A i \in 1..Len(analyzer.text_blocks) :
            analyzer.text_blocks[i].numbering_pattern = PatternWhenAlone(i)


\* _pass2 has computed the baseline, the tiers and the scores
Scored == pc \in {"pass2", "done"}

\* the font sizes of the fragments the baseline is computed from
BaselineSample ==
    LET body == BodyBlocks(analyzer.text_blocks)
    IN  [i \in 1..Len(body) |-> body[i].font_size]

\* the sizes no other size of the sample is more frequent than
MostFrequentSizes ==
    {s \in SeqToSet(BaselineSample) :
        \A t \in SeqToSet(BaselineSample) :
            CountOf(BaselineSample, t) <= CountOf(BaselineSample, s)}

\* C15: the baseline font size is the smallest of the most frequent sizes
\* of the fragments it is computed from
BaselineIsSmallestMode ==
    Scored =>
        /\ analyzer.baseline_font_size \in MostFrequentSizes
        /\ \A s \in MostFrequentSizes : analyzer.baseline_font_size <= s


\* how many fragments of the document have font size s
FragmentsOfSize(s) ==
    Cardinality({i \in 1..Len(analyzer.text_blocks) : analyzer.text_blocks[i].font_size = s})

\* C16: heading_size_tiers is strictly decreasing and has at most 4
\* entries; every entry is at least 15% larger than the baseline, is the
\* size of a fragment on a page other than page 0, and is the size of at
\* least two fragments or at least 50% larger than the baseline
TiersWellFormed ==
    Scored =>
        /\ Len(analyzer.heading_size_tiers) <= 4
        /\ \A k \in 1..(Len(analyzer.heading_size_tiers) - 1) :
              analyzer.heading_size_tiers[k] > analyzer.heading_size_tiers[k + 1]
        /\ \A k \in 1..Len(analyzer.heading_size_tiers) :
              /\ analyzer.heading_size_tiers[k] * 100 >= analyzer.baseline_font_size * 115
              /\ \E i \in 1..Len(analyzer.text_blocks) :
                    /\ analyzer.text_blocks[i].font_size = analyzer.heading_size_tiers[k]
                    /\ analyzer.text_blocks[i].page_num > 0
              /\ \/ FragmentsOfSize(analyzer.heading_size_tiers[k]) >= 2
                 \/ analyzer.heading_size_tiers[k] * 10 >= analyzer.baseline_font_size * 15

\* six sizes qualify, the largest is dropped and four of the others are kept
FourTiersKept ==
    /\ Scored
    /\ raw = SixTiers
    /\ analyzer.baseline_font_size = Pt(10)
    /\ analyzer.heading_size_tiers = <<Pt(19), Pt(18), Pt(17), Pt(16)>>


\* the sizes that qualify as tiers, largest first
QualifyingSizes ==
    SizeTiers(BodyBlocks(analyzer.text_blocks), analyzer.baseline_font_size)

\* C17: when at least two sizes qualify, the largest is left out of
\* heading_size_tiers exactly when it is at least 30% larger than the
\* second largest, and is tier 0 otherwise
LargestTierExclusion ==
    (Scored /\ Len(QualifyingSizes) >= 2) =>
        IF QualifyingSizes[1] * 10 >= QualifyingSizes[2] * 13
        THEN ~InSeq(analyzer.heading_size_tiers, QualifyingSizes[1])
        ELSE analyzer.heading_size_tiers[1] = QualifyingSizes[1]


\* the sum of the signals of the scoring table for block b
CanonicalScore(b, baseline, tiers) ==
    (IF InSeq(tiers, b.font_size) THEN 25 - 3 * IndexOf(tiers, b.font_size)
     ELSE IF b.font_size * 10 >= 20 * baseline THEN 20
     ELSE IF b.font_size * 10 >= 15 * baseline THEN 15
     ELSE IF b.font_size * 10 >= 12 * baseline THEN 10
     ELSE IF b.font_size * 10 >= 11 * baseline THEN 5
     ELSE 0)
    + (IF b.is_bold THEN (IF b.font_size * 10 >= 13 * baseline THEN 12 ELSE 8) ELSE 0)
    + (IF b.numbering_pattern # "None" THEN 18 ELSE 0)
    + (IF b.text_case = "UPPER" THEN 6 ELSE IF b.text_case = "Title Case" THEN 4 ELSE 0)
    + (IF b.space_above * 10 > 15 * baseline THEN 10 ELSE 0)
    + (IF b.is_centered /\ b.font_size * 10 >= 12 * baseline THEN 8 ELSE 0)
    + (IF b.char_count < 4 THEN -8
       ELSE IF b.char_count <= 50 THEN 2
       ELSE IF b.char_count > 100 THEN -5 ELSE 0)
    + (IF b.font_size * 100 < 95 * baseline THEN -8 ELSE 0)

\* C18: the heading_score of every fragment is the sum of the signals of
\* the scoring table
ScoreIsSumOfSignals ==
    Scored =>
        \A i \in 1..Len(analyzer.text_blocks) :
            analyzer.text_blocks[i].heading_score =
                CanonicalScore(analyzer.text_blocks[i], analyzer.baseline_font_size,
                               analyzer.heading_size_tiers)


\* the scoring table is the one the scorer uses for block b: b has real
\* font metadata and holds no CJK character
ScoredByTable(b) ==
    /\ ~b.is_ocr_text
    /\ \A i \in 1..Len(b.text) : b.text[i] \notin CJKIdeographs \cup Kana

\* C18 (amended): the heading_score of every fragment that has real font
\* metadata and holds no CJK character is the sum of the signals of the
\* scoring table
ScoreIsSumOfSignalsOutsideOcrAndCjk ==
    Scored =>
        \A i \in 1..Len(analyzer.text_blocks) :
            ScoredByTable(analyzer.text_blocks[i]) =>
                analyzer.text_blocks[i].heading_score =
                    CanonicalScore(analyzer.text_blocks[i], analyzer.baseline_font_size,
                                   analyzer.heading_size_tiers)

\* a block scored by the table with the tier, bold, case, space and length
\* signals
ManySignalsScored ==
    /\ Scored
    /\ raw = FilteredDocument
    /\ analyzer.heading_size_tiers = <<Pt(16)>>
    /\ ScoredByTable(analyzer.text_blocks[4])
    /\ analyzer.text_blocks[4].heading_score = 25 + 12 + 4 + 10 + 2


\* text holds a Latin, CJK, kana, hangul, Cyrillic or Arabic character
HasAlphabeticCharacter(text) ==
    \E i \in 1..Len(text) :
        text[i] \in AsciiLetters \cup CJKIdeographs \cup Kana \cup Hangul
                    \cup Cyrillic \cup ArabicBlock

\* text starts with "Version <digits>.<digits>", in any case
StartsWithVersionNumber(text) ==
    /\ Len(text) >= 8
    /\ ToLower(SubSeq(text, 1, 8)) = <<"v", "e", "r", "s", "i", "o", "n", " ">>
    /\ \E d \in 10..Len(text) :
          /\ \A j \in 9..(d - 1) : IsDigit(text[j])
          /\ text[d] = "."
          /\ d < Len(text)
          /\ IsDigit(text[d + 1])

\* C19: every outline entry is built only from fragments whose
\* heading_score is at least 20, whose text holds an alphabetic character
\* and whose text does not start with a version string
OutlineOnlyFromCandidates ==
    Finished =>
        \A k \in 1..Len(result.outline) :
            /\ Len(sources[k]) > 0
            /\ \A j \in 1..Len(sources[k]) :
                  /\ analyzer.text_blocks[sources[k][j]].heading_score >= 20
                  /\ HasAlphabeticCharacter(analyzer.text_blocks[sources[k][j]].text)
                  /\ ~StartsWithVersionNumber(analyzer.text_blocks[sources[k][j]].text)

\* a version string and a line of digits score above 20 and stay out of
\* the outline, the heading after them is in it
VersionAndDigitsLeftOut ==
    /\ Finished
    /\ raw = FilteredDocument
    /\ analyzer.text_blocks[2].heading_score >= 20
    /\ analyzer.text_blocks[3].heading_score >= 20
    /\ sources = << <<4>> >>


(***************************************************************************)
(* The fixed weight keywords                                               *)
(***************************************************************************)
HasFixedWeightKeyword(font_name) ==
    \E i \in 1..Len(basic_keywords) : Contains(ToLower(font_name), basic_keywords[i])

\* C20: once the features of the blocks are extracted, every block that is
\* not of OCR origin and whose font name contains one of bold, black, heavy,
\* demi, semi has is_bold = TRUE, whatever other font names the document has
FixedWeightKeywordsBold ==
    Learned =>
        \A i \in 1..Len(analyzer.text_blocks) :
            LET b == analyzer.text_blocks[i]
            IN  (~b.is_ocr_text /\ HasFixedWeightKeyword(b.font_name)) => b.is_bold


(***************************************************************************)
(* Extraction that fails part-way                                          *)
(***************************************************************************)
AnalysisStarted == pc \in {"learned", "pass1", "pass2", "done", "raised"}

\* C12: the analyzer runs on the complete set of the merged lines of the
\* file or not at all: it never runs on the blocks collected before the
\* extraction failed
CompleteOrNotAtAll ==
    (extractor.status = "handed" /\ AnalysisStarted) =>
        /\ ~extractor.failed
        /\ raw = extractor.source


(***************************************************************************)
(* Failures in a batch                                                     *)
(***************************************************************************)
BatchEnded == pool.status \in {"returned", "raised"}

\* the analysis of file i alone returns a result
OwnAnalysisReturns(i) ==
    TaskOutcome(pool.files[i], pool.width, NewPatternLearner).outcome = "result"

\* C11: when the batch has ended, every file whose own analysis returns was
\* analyzed and has its result written, whatever the analysis of the other
\* files of the batch raised
FailureIsolatedToItsDocument ==
    BatchEnded =>
        \A i \in 1..Len(pool.files) :
            OwnAnalysisReturns(i) => (i \in pool.analyzed /\ i \in pool.written)


(***************************************************************************)
(* Titles                                                                  *)
(***************************************************************************)
SinglePage == TotalPages(analyzer.text_blocks) = 1

\* the poster strategy is taken: lines 607-622
PosterStrategyTaken ==
    /\ SinglePage
    /\ IsPosterDocument(analyzer.document_indicators)
    /\ ~has_numbered_content(analyzer.text_blocks)

GeneralSinglePage == SinglePage /\ ~PosterStrategyTaken

FirstPageBlocks == {i \in 1..Len(analyzer.text_blocks) : analyzer.text_blocks[i].page_num = 0}

\* the page-0 blocks whose font size is at least 90% of the largest size on
\* the page and that are centered, in vertical order
CenteredTitleBlocks ==
    LET blocks == analyzer.text_blocks
        qualifying == {i \in FirstPageBlocks :
                          /\ blocks[i].is_centered
                          /\ \A j \in FirstPageBlocks :
                                blocks[i].font_size * 10 >= blocks[j].font_size * 9}
        ByY(i, j) == blocks[i].y_position < blocks[j].y_position
    IN  StableSort(IndicesWhere(blocks, qualifying),
                   [a \in qualifying, b \in qualifying |-> ByY(a, b)])

\* C21: in a single-page document handled by the general strategy, the
\* title is the text of the one centered page-0 block of at least 90% of the
\* largest size, and the texts of all of them joined by single spaces in
\* vertical order when there are several
SinglePageTitleJoinsCenteredBlocks ==
    (Finished /\ GeneralSinglePage /\ Len(CenteredTitleBlocks) > 0) =>
        result.title =
            Join([k \in 1..Len(CenteredTitleBlocks) |->
                     Strip(analyzer.text_blocks[CenteredTitleBlocks[k]].text)], SP)


MultiPage == TotalPages(analyzer.text_blocks) > 1

TitleWords == Split(result.title)

\* C22: no word of the title of a multi-page document is equal to, or a
\* substring of, the word right before it in the title
NoTitleWordRepeatsItsPredecessor ==
    (Finished /\ MultiPage) =>
        \A i \in 2..Len(TitleWords) :
            ~Contains(ToLower(TitleWords[i - 1]), ToLower(TitleWords[i]))


(***************************************************************************)
(* What stays out of the outline of a multi-page document                  *)
(***************************************************************************)
\* the texts of the blocks the title was resolved from
TitleTexts ==
    {analyzer.text_blocks[i].text : i \in ResolveTitle(analyzer.text_blocks).title_blocks}

\* the blocks the outline entries were built from
OutlineSources == UNION {SeqToSet(sources[k]) : k \in 1..Len(sources)}

\* C23: in a multi-page document no outline entry is built from a block of
\* page 0, and none from a block whose text is the text of a block the
\* title was resolved from
TitleAndFirstPageLeftOut ==
    (Finished /\ MultiPage) =>
        \A i \in OutlineSources :
            /\ analyzer.text_blocks[i].page_num # 0
            /\ analyzer.text_blocks[i].text \notin TitleTexts

\* a heading candidate on page 0 that is no title block, and a candidate on
\* a later page with the text of a title block, both left out of an outline
\* that has an entry
FirstPageAndTitleCandidatesLeftOut ==
    /\ Finished
    /\ MultiPage
    /\ raw = AlmanacDocument
    /\ sources = << <<5>> >>
    /\ Len(result.outline) > 0
    /\ \E i \in SeqToSet(Candidates(analyzer)) :
          /\ analyzer.text_blocks[i].page_num = 0
          /\ analyzer.text_blocks[i].text \notin TitleTexts
    /\ \E i \in SeqToSet(Candidates(analyzer)) :
          /\ analyzer.text_blocks[i].page_num # 0
          /\ analyzer.text_blocks[i].text \in TitleTexts


(***************************************************************************)
(* The choice of the strategy                                              *)
(***************************************************************************)
\* C24: the poster strategy is applied only to documents of exactly one
\* page that hold at least 2 social indicator terms or at least 3 form-field
\* tokens
PosterStrategyOnlyForPosters ==
    (Finished /\ PosterStrategyTaken) =>
        /\ SinglePage
        /\ \/ Cardinality(analyzer.document_indicators.social) >= 2
           \/ Cardinality(analyzer.document_indicators.form) >= 3


(***************************************************************************)
(* The outline of a single-page document                                   *)
(***************************************************************************)
\* block i comes before block j on the page: higher up, or at the same
\* height and larger
EarlierOnPage(i, j) ==
    LET blocks == analyzer.text_blocks
    IN  \/ blocks[i].y_position < blocks[j].y_position
        \/ /\ blocks[i].y_position = blocks[j].y_position
           /\ blocks[i].font_size > blocks[j].font_size

\* the entry of the outline was built from block i alone, and no block of
\* the set comes before i on the page
BuiltFromEarliestOf(set) ==
    \E i \in set :
        /\ sources = << <<i>> >>
        /\ \A j \in set : ~EarlierOnPage(j, i)

\* C25: a single-page document has at most one outline entry, of level H1;
\* the poster strategy returns the empty title with it, and the general
\* strategy builds it from the heading candidate that is earliest on the
\* page, the larger font first among candidates at the same height
SinglePageOutlineIsEarliestCandidate ==
    (Finished /\ SinglePage) =>
        /\ Len(result.outline) <= 1
        /\ \A k \in 1..Len(result.outline) : result.outline[k].level = "H1"
        /\ PosterStrategyTaken => result.title = << >>
        /\ (GeneralSinglePage /\ Len(result.outline) = 1) =>
               BuiltFromEarliestOf(SeqToSet(Candidates(analyzer)))


\* the candidates the general strategy of a single-page document chooses
\* from: not the text of the title, and either upper case and longer than 5
\* characters or at least 1.2 times the baseline font size
EligibleCandidates ==
    {i \in SeqToSet(Candidates(analyzer)) :
        LET b == analyzer.text_blocks[i]
        IN  /\ b.text # result.title
            /\ \/ b.text_case = "UPPER" /\ Len(Strip(b.text)) > 5
               \/ b.font_size * 10 >= analyzer.baseline_font_size * 12}

\* C25, amended: a single-page document has at most one outline entry, of
\* level H1; the poster strategy returns the empty title and builds the
\* entry from several blocks, and the general strategy builds it from the
\* earliest on the page, the larger font first at the same height, of the
\* candidates that do not have the text of the title and are upper case and
\* longer than 5 characters or at least 1.2 times the baseline font size
SinglePageOutlineIsEarliestEligible ==
    (Finished /\ SinglePage) =>
        /\ Len(result.outline) <= 1
        /\ \A k \in 1..Len(result.outline) : result.outline[k].level = "H1"
        /\ PosterStrategyTaken =>
              /\ result.title = << >>
              /\ \A k \in 1..Len(sources) : Len(sources[k]) > 1
        /\ GeneralSinglePage =>
              IF EligibleCandidates = {} THEN result.outline = << >>
              ELSE BuiltFromEarliestOf(EligibleCandidates)

\* the title block is the earliest candidate of a single page and the
\* entry is built from the heading below it
HeadingBelowTitleChosen ==
    /\ Finished
    /\ GeneralSinglePage
    /\ raw = SubSeq(AlmanacDocument, 1, 3)
    /\ 1 \in SeqToSet(Candidates(analyzer))
    /\ result.title = AlmanacTitle.text
    /\ sources = << <<2>> >>


(***************************************************************************)
(* The page and the text of an entry                                       *)
(***************************************************************************)
\* C26: the page of every outline entry is the page_num of the blocks the
\* entry was built from
EntryPageIsSourcePage ==
    Finished =>
        \A k \in 1..Len(result.outline) :
            \A i \in SeqToSet(sources[k]) :
                result.outline[k].page = analyzer.text_blocks[i].page_num


\* C27: the text of every outline entry is the trimmed text of the block it
\* was built from, and the trimmed texts of its blocks joined by single
\* spaces for a merged entry: it has no leading and no trailing whitespace
EntryTextIsTrimmedSourceText ==
    Finished =>
        \A k \in 1..Len(result.outline) :
            result.outline[k].text =
                Join([n \in 1..Len(sources[k]) |->
                         Strip(analyzer.text_blocks[sources[k][n]].text)], SP)


(***************************************************************************)
(* Levels and font sizes in a multi-page document                          *)
(***************************************************************************)
\* the depth n of the level Hn
LevelNumber(level) == CHOOSE n \in 1..6 : LevelName(n) = level

\* the block entry k was built from, for an entry built from one block
SourceBlock(k) == analyzer.text_blocks[sources[k][1]]

\* the entries without a numbering pattern
UnnumberedEntries ==
    {k \in 1..Len(result.outline) : SourceBlock(k).numbering_pattern = "None"}

\* the tier (from 1) whose size is within half a point of the entry's, 0 for none
EntryTier(k) == MatchingTier(analyzer.heading_size_tiers, SourceBlock(k).font_size)

UntieredEntries == {k \in UnnumberedEntries : EntryTier(k) = 0}

\* C28: among the entries of a multi-page document without a numbering
\* pattern, an entry of the i-th tier (from 1) has level Hi, an entry of no
\* tier has a level deeper than every tier, and of two entries of no tier
\* the one with the larger rounded font size never has the deeper level
LevelsMonotoneInFontSize ==
    (Finished /\ MultiPage) =>
        /\ \A k \in UnnumberedEntries \ UntieredEntries :
               result.outline[k].level = LevelName(EntryTier(k))
        /\ \A k \in UntieredEntries :
               LevelNumber(result.outline[k].level) > Len(analyzer.heading_size_tiers)
        /\ \A k, j \in UntieredEntries :
               Round(SourceBlock(k).font_size) > Round(SourceBlock(j).font_size) =>
                   LevelNumber(result.outline[k].level) <= LevelNumber(result.outline[j].level)


(***************************************************************************)
(* The order of scoring, reading the scores and archetype detection        *)
(***************************************************************************)
\* the steps that need the scores or belong to archetype detection
AfterScoring == {"heading_score_read", "detect_content_indicators", "is_poster"}

\* how often a step was made in the current call
TimesDone(step) == Cardinality({n \in 1..Len(steps) : steps[n] = step})

\* C29: within one call of analyze_document the heading scores are written
\* before any step reads them and before the blocks are inspected for the
\* academic, social and form indicators and the strategy is chosen; when
\* the call has returned, the inspection was made exactly once and the
\* strategy chosen at most once
ScoredBeforeReadAndDetection ==
    /\ \A n \in 1..Len(steps) :
           steps[n] \in AfterScoring =>
               \E m \in 1..(n - 1) : steps[m] = "heading_score_written"
    /\ Finished =>
           /\ TimesDone("detect_content_indicators") = 1
           /\ TimesDone("is_poster") <= 1


(***************************************************************************)
(* The title of utils/analysis.py                                          *)
(***************************************************************************)
LegacyReturned == legacy.pc = "done"

\* the text the title block was added with, followed by the texts of the
\* lines merged into it, each once
TitleMergedOnce ==
    LET lines == MergedLines(legacy.added, legacy.title_block, legacy.title_block + 1)
    IN  Join(<<legacy.added[legacy.title_block].text>>
                 \o [k \in 1..Len(lines) |-> legacy.added[lines[k]].text], SP)

\* C30: when analyze_document of utils/analysis.py has returned for a
\* document that is no form and has a title block, the second call of
\* _find_best_title has left the text of every block as the first call left
\* it: the title block holds its original text followed by each merged line
\* once, every other block holds its original text, and the title returned
\* is the text of the title block
TitleDetectionIdempotent ==
    (LegacyReturned /\ ~legacy.is_form /\ legacy.title_block # 0) =>
        /\ \A i \in 1..Len(legacy.an.text_blocks) :
               legacy.an.text_blocks[i].text =
                   IF i = legacy.title_block THEN TitleMergedOnce ELSE legacy.added[i].text
        /\ legacy.title = TitleMergedOnce

====
